SPECIFICATION FairSpec
CONSTANTS
    Plain <- MCPlain
    Choice = {"c"}
    Members <- MCMembers
    None = None
    Prompt <- MCPrompt
    Select <- MCSelect
    Default <- MCDefault
    ChoiceDefault <- MCChoiceDefault
    NoFile = NoFile
INVARIANTS Fresh InSync OneSet CalcAgrees
PROPERTIES RoundTrip QuietRead NothingAsked Effective ConfEnds
