SPECIFICATION Spec
CONSTANTS
    Plain = {"p"}
    Choice = {"arch", "variant"}
    Members <- MCMembers
    None = None
    Prompt <- MCPrompt
    Select <- MCSelect
    Default <- MCDefault
    ChoiceDefault <- MCChoiceDefault
    Order <- MCOrder
    MenuOrder <- MCMenuOrder
INVARIANT OnlyOneSet
CHECK_DEADLOCK FALSE
