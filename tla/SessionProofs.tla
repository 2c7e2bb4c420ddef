---------------------------- MODULE SessionProofs ----------------------------
(***************************************************************************)
(* Theorems of Session, for every menu that sym_check_deps accepts.        *)
(***************************************************************************)
EXTENDS Session, SequenceTheorems, WellFoundedInduction, FiniteSetTheorems, TLAPS

-----------------------------------------------------------------------------
(* The order in which a choice considers its members *)

LEMMA FirstIsLeast ==
    ASSUME NEW I \in SUBSET Nat, I # {}
    PROVE  First(I) \in I /\ \A j \in I : First(I) <= j
<1> DEFINE T == {0..i : i \in I}
           R == StrictSubsetOrdering(Nat)
<1>1. T \subseteq FiniteSubsetsOf(Nat) /\ T # {}
  <2>1. \A i \in I : 0..i \in SUBSET Nat /\ IsFiniteSet(0..i)
        BY FS_Interval
  <2>. QED  BY <2>1 DEF FiniteSubsetsOf
<1>2. IsWellFoundedOn(R, FiniteSubsetsOf(Nat))
      BY FS_StrictSubsetOrderingWellFounded
<1>3. PICK x \in T : \A y \in T : <<y, x>> \notin R
      BY <1>1, <1>2, WFMin
<1>4. PICK i \in I : x = 0..i
      OBVIOUS
<1>5. ASSUME NEW j \in I, j < i
      PROVE  FALSE
  <2>1. 0..j \subseteq 0..i /\ 0..j # 0..i /\ 0..j \subseteq Nat /\ 0..i \subseteq Nat
    <3>1. i \in 0..i /\ i \notin 0..j
          BY <1>5
    <3>. QED  BY <1>5, <3>1
  <2>2. <<0..j, x>> \in R
        BY <2>1, <1>4 DEF StrictSubsetOrdering
  <2>. QED  BY <2>2, <1>3
<1>6. \A j \in I : i <= j
      BY <1>5
<1>. QED  BY <1>6 DEF First

LEMMA OfChoice ==
    ASSUME NEW c \in Choice, NEW m \in In(c)
    PROVE  m \in Member /\ ChoiceOf(m) = c /\ m \notin Plain /\ m \notin Choice
BY ChoiceAssumption DEF Member, ChoiceOf, Sym

(* The conditions under which a choice considers a member. *)
Whens(c) ==
    {Always} \cup {d.when : d \in Range(ChoiceDefault[c])}

LEMMA CandidatesIn ==
    ASSUME NEW c \in Choice, NEW u \in User
    PROVE  /\ DOMAIN Candidates(c, u) \subseteq Nat \ {0}
           /\ Len(Candidates(c, u)) \in Nat
           /\ DOMAIN Candidates(c, u) = 1..Len(Candidates(c, u))
           /\ \A i \in DOMAIN Candidates(c, u) :
                  /\ Candidates(c, u)[i].to \in In(c)
                  /\ Candidates(c, u)[i].when \in Whens(c)
           /\ \A m \in In(c) : \E i \in DOMAIN Candidates(c, u) :
                  Candidates(c, u)[i] = [to |-> m, when |-> Always]
           /\ u.val[c] # None => /\ 1 \in DOMAIN Candidates(c, u)
                                 /\ Candidates(c, u)[1] = [to |-> u.val[c], when |-> Always]
<1> DEFINE Cand == [to : In(c), when : Whens(c)]
           own == IF u.val[c] = None THEN <<>>
                  ELSE <<[to |-> u.val[c], when |-> Always]>>
           def == ChoiceDefault[c]
           rest == [i \in DOMAIN Members[c] |-> [to |-> Members[c][i], when |-> Always]]
<1>1. Always \in Whens(c)
      BY DEF Whens
<1>2. own \in Seq(Cand)
  <2>1. CASE u.val[c] = None
        BY <2>1
  <2>2. CASE u.val[c] # None
    <3>1. u.val[c] \in In(c)
          BY <2>2 DEF User, Vals
    <3>. QED  BY <2>2, <3>1, <1>1
  <2>. QED  BY <2>1, <2>2
<1>3. def \in Seq(Cand)
  <2>1. def \in Seq([to : Member, when : Condition])
        BY PropAssumption
  <2>2. Len(def) \in Nat /\ DOMAIN def = 1..Len(def)
        BY <2>1
  <2>3. ASSUME NEW i \in DOMAIN def
        PROVE  def[i] \in Cand
    <3>1. def[i].to \in In(c)
          BY PropAssumption
    <3>2. def[i] \in [to : Member, when : Condition]
          BY <2>1, <2>2, ElementOfSeq
    <3>3. def[i].when \in Whens(c)
          BY DEF Whens, Range
    <3>. QED  BY <3>1, <3>2, <3>3
  <2>4. def = [i \in DOMAIN def |-> def[i]]
        BY <2>1
  <2>. HIDE DEF def
  <2>5. def \in [1..Len(def) -> Cand]
        BY <2>2, <2>3, <2>4
  <2>. QED  BY <2>2, <2>5, SeqDef
<1>4. Members[c] \in Seq(Member) /\ In(c) = {Members[c][i] : i \in DOMAIN Members[c]}
      BY ChoiceAssumption DEF In, Range
<1>5. rest \in Seq(Cand)
  <2>1. DOMAIN rest = 1..Len(Members[c])
        BY <1>4
  <2>2. \A i \in 1..Len(Members[c]) : rest[i] \in Cand
        BY <1>1, <1>4
  <2>3. Len(Members[c]) \in Nat
        BY <1>4
  <2>4. rest = [i \in 1..Len(Members[c]) |-> rest[i]]
        BY <2>1
  <2>. HIDE DEF rest
  <2>5. rest \in [1..Len(Members[c]) -> Cand]
        BY <2>2, <2>4
  <2>. QED  BY <2>3, <2>5, SeqDef
<1>. HIDE DEF own, def, rest, Cand
<1>6. Candidates(c, u) = own \o def \o rest
      BY DEF Candidates, own, def, rest
<1>7. own \o def \in Seq(Cand) /\ Len(own \o def) = Len(own) + Len(def)
      BY <1>2, <1>3
<1>8. /\ Candidates(c, u) \in Seq(Cand)
      /\ Len(Candidates(c, u)) = Len(own) + Len(def) + Len(rest)
      BY <1>5, <1>6, <1>7
<1>9. \A i \in DOMAIN Candidates(c, u) :
          /\ Candidates(c, u)[i].to \in In(c)
          /\ Candidates(c, u)[i].when \in Whens(c)
  <2>. TAKE i \in DOMAIN Candidates(c, u)
  <2>1. Candidates(c, u)[i] \in Cand
        BY <1>8, ElementOfSeq
  <2>. QED  BY <2>1 DEF Cand
<1>10. ASSUME NEW m \in In(c)
       PROVE  \E i \in DOMAIN Candidates(c, u) :
                  Candidates(c, u)[i] = [to |-> m, when |-> Always]
  <2>1. PICK i \in DOMAIN Members[c] : m = Members[c][i]
        BY <1>4
  <2>2. i \in 1..Len(rest) /\ rest[i] = [to |-> m, when |-> Always]
        BY <2>1, <1>4, <1>5 DEF rest
  <2>3. Candidates(c, u)[Len(own \o def) + i] = rest[i]
        BY <2>2, <1>5, <1>6, <1>7
  <2>4. Len(own \o def) + i \in DOMAIN Candidates(c, u)
        BY <2>2, <1>2, <1>3, <1>5, <1>7, <1>8
  <2>. QED  BY <2>2, <2>3, <2>4
<1>11. ASSUME u.val[c] # None
       PROVE  /\ 1 \in DOMAIN Candidates(c, u)
              /\ Candidates(c, u)[1] = [to |-> u.val[c], when |-> Always]
  <2>1. Len(own) = 1 /\ own[1] = [to |-> u.val[c], when |-> Always]
        BY <1>11 DEF own
  <2>2. Len(own \o def) >= 1 /\ (own \o def)[1] = own[1]
        BY <2>1, <1>2, <1>3, <1>7, ConcatProperties, LenProperties
  <2>3. Candidates(c, u)[1] = (own \o def)[1]
        BY <2>2, <1>5, <1>6, <1>7
  <2>. QED  BY <2>1, <2>2, <2>3, <1>2, <1>3, <1>5, <1>8
<1>. QED  BY <1>8, <1>9, <1>10, <1>11

(* Whether a choice can choose does not depend on what the user set. *)
LEMMA PossibleIffOpen ==
    ASSUME NEW c \in Choice, NEW u \in User, NEW v
    PROVE  /\ Possible(c, v, u) # {} <=> \E m \in In(c) : Holds(Prompt[m], v)
           /\ Possible(c, v, u) # {} => /\ Picked(c, v, u) \in In(c)
                                        /\ Holds(Prompt[Picked(c, v, u)], v)
<1>1. Holds(Always, v)
      BY DEF Holds, Always
<1>2. Possible(c, v, u) # {} =>
          /\ Picked(c, v, u) \in In(c)
          /\ Holds(Prompt[Picked(c, v, u)], v)
  <2>1. Possible(c, v, u) \subseteq DOMAIN Candidates(c, u)
        BY DEF Possible
  <2>. HAVE Possible(c, v, u) # {}
  <2>2. First(Possible(c, v, u)) \in Possible(c, v, u)
        BY <2>1, CandidatesIn, FirstIsLeast
  <2>. QED  BY <2>2, CandidatesIn DEF Possible, Picked
<1>3. ASSUME NEW m \in In(c), Holds(Prompt[m], v)
      PROVE  Possible(c, v, u) # {}
  <2>1. PICK i \in DOMAIN Candidates(c, u) :
            Candidates(c, u)[i] = [to |-> m, when |-> Always]
        BY CandidatesIn
  <2>2. Candidates(c, u)[i].to = m /\ Candidates(c, u)[i].when = Always
        BY <2>1
  <2>. QED  BY <1>1, <1>3, <2>2 DEF Possible
<1>. QED  BY <1>2, <1>3

(* The member the user chose, if it is visible. *)
LEMMA OwnIsPicked ==
    ASSUME NEW c \in Choice, NEW u \in User, NEW v, NEW m \in In(c),
           u.val[c] = m, Holds(Prompt[m], v)
    PROVE  Picked(c, v, u) = m
<1>1. m # None
      BY OfChoice, ChoiceAssumption DEF All, Sym
<1>2. Holds(Always, v)
      BY DEF Holds, Always
<1>3. /\ 1 \in DOMAIN Candidates(c, u)
      /\ Candidates(c, u)[1] = [to |-> m, when |-> Always]
      BY <1>1, CandidatesIn
<1>4. Candidates(c, u)[1].to = m /\ Candidates(c, u)[1].when = Always
      BY <1>3
<1>5. 1 \in Possible(c, v, u)
      BY <1>2, <1>3, <1>4 DEF Possible
<1>6. Possible(c, v, u) \in SUBSET (Nat \ {0})
      BY CandidatesIn DEF Possible
<1>7. /\ First(Possible(c, v, u)) \in Possible(c, v, u)
      /\ First(Possible(c, v, u)) <= 1
      BY <1>5, <1>6, FirstIsLeast
<1>8. First(Possible(c, v, u)) = 1
      BY <1>6, <1>7
<1>. QED  BY <1>4, <1>8 DEF Picked

-----------------------------------------------------------------------------
(* That every setting determines the values: the groups get theirs one     *)
(* after the other, each after those it needs.                             *)

(* The symbols of a group. *)
Of(g) == {s \in All : Group(s) = g}

(* Those of them that come out on when the others are those in v. *)
Result(g, v, u) ==
    {s \in Of(g) :
        IF g \in Plain THEN PlainOn(g, v, u)
        ELSE IF s = g THEN ChoiceOn(g, v, u) ELSE MemberOn(g, s, v, u)}

(* u and w say the same of g. *)
SameSet(g, u, w) ==
    /\ g \in Plain => u.def[g] = w.def[g]
    /\ g \in Choice => u.val[g] = w.val[g]

Agree(v, w, S) == \A s \in S : s \in v <=> s \in w

LEMMA GroupIn == \A s \in All : Group(s) \in Groups
BY OfChoice DEF All, Sym, Member, Group, Groups

LEMMA OfPlain ==
    ASSUME NEW s \in Plain
    PROVE  /\ Of(s) = {s} /\ s \in All /\ s \in Groups /\ s \notin Choice
           /\ Group(s) = s
<1>1. s \in All /\ s \notin Choice /\ s \notin Member
      BY ChoiceAssumption DEF All, Sym
<1>2. ASSUME NEW t \in All, Group(t) = s
      PROVE  t = s
      BY <1>1, <1>2, OfChoice DEF Group, Member
<1>. QED  BY <1>1, <1>2 DEF Of, Groups, Group

LEMMA OfWithMembers ==
    ASSUME NEW c \in Choice
    PROVE  /\ Of(c) = In(c) \cup {c} /\ c \notin In(c) /\ c \in Groups /\ c \notin Plain
           /\ Group(c) = c /\ \A m \in In(c) : Group(m) = c
<1>1. c \in All /\ c \notin Member /\ c \notin Plain
      BY ChoiceAssumption DEF All, Sym
<1>2. \A m \in In(c) : m \in All /\ Group(m) = c
      BY OfChoice DEF All, Sym, Group
<1>3. ASSUME NEW t \in All, Group(t) = c
      PROVE  t \in In(c) \cup {c}
  <2>1. CASE t \in Member
    <3>1. PICK d \in Choice : t \in In(d)
          BY <2>1 DEF Member
    <3>. QED  BY <1>3, <3>1, OfChoice DEF Group
  <2>2. CASE t \notin Member
        BY <1>3, <2>2 DEF Group
  <2>. QED  BY <2>1, <2>2
<1>. QED  BY <1>1, <1>2, <1>3, OfChoice DEF Of, Groups, Group

(* Values are consistent if they are so for each group. *)
LEMMA ByGroup ==
    ASSUME NEW v, NEW u
    PROVE  Consistent(v, u) <=> \A g \in Groups : Agree(v, Result(g, v, u), Of(g))
<1>1. ASSUME NEW s \in Plain
      PROVE  (s \in v <=> PlainOn(s, v, u)) <=> Agree(v, Result(s, v, u), Of(s))
      BY OfPlain DEF Result, Agree
<1>2. ASSUME NEW c \in Choice
      PROVE  /\ c \in v <=> ChoiceOn(c, v, u)
             /\ \A m \in In(c) : m \in v <=> MemberOn(c, m, v, u)
             <=> Agree(v, Result(c, v, u), Of(c))
      BY OfWithMembers DEF Result, Agree
<1>. QED  BY <1>1, <1>2 DEF Consistent, Groups

LEMMA HoldsLocal ==
    ASSUME NEW cond, NEW v, NEW w, Agree(v, w, Mentions(cond))
    PROVE  Holds(cond, v) <=> Holds(cond, w)
<1>1. ASSUME NEW k \in cond
      PROVE  /\ k.on \subseteq v <=> k.on \subseteq w
             /\ k.off \cap v = {} <=> k.off \cap w = {}
  <2>1. k.on \subseteq Mentions(cond) /\ k.off \subseteq Mentions(cond)
        BY DEF Mentions
  <2>. QED  BY <2>1 DEF Agree
<1>. QED  BY <1>1 DEF Holds

(* What a symbol is depends on no more than what it needs. *)
LEMMA PlainLocal ==
    ASSUME NEW s \in Plain, NEW v, NEW w, Agree(v, w, Needs(s))
    PROVE  /\ Visible(s, v) <=> Visible(s, w)
           /\ Selected(s, v) <=> Selected(s, w)
           /\ DefaultOn(s, v) <=> DefaultOn(s, w)
<1>1. s \notin Choice /\ s \notin Member
      BY ChoiceAssumption DEF Sym
<1>2. Mentions(Prompt[s]) \subseteq Needs(s) /\ Mentions(Select[s]) \subseteq Needs(s)
      BY <1>1 DEF Needs
<1>3. \A i \in DOMAIN Default[s] : /\ Mentions(Default[s][i].when) \subseteq Needs(s)
                                   /\ Mentions(Default[s][i].value) \subseteq Needs(s)
      BY <1>1 DEF Needs, Range
<1>4. \A X : Mentions(X) \subseteq Needs(s) => (Holds(X, v) <=> Holds(X, w))
      BY HoldsLocal DEF Agree
<1>5. Applicable(s, v) = Applicable(s, w)
      BY <1>3, <1>4 DEF Applicable
<1>6. Applicable(s, v) # {} => First(Applicable(s, v)) \in DOMAIN Default[s]
  <2>1. Default[s] \in Seq([value : Condition, when : Condition])
        BY PropAssumption
  <2>2. DOMAIN Default[s] \subseteq Nat
        BY <2>1
  <2>3. Applicable(s, v) \in SUBSET Nat /\ Applicable(s, v) \subseteq DOMAIN Default[s]
        BY <2>2 DEF Applicable
  <2>. QED  BY <2>3, FirstIsLeast
<1>7. DefaultOn(s, v) <=> DefaultOn(s, w)
      BY <1>3, <1>4, <1>5, <1>6 DEF DefaultOn
<1>. QED  BY <1>1, <1>2, <1>4, <1>7 DEF Visible, Selected

LEMMA ChoiceLocal ==
    ASSUME NEW c \in Choice, NEW v, NEW w, Agree(v, w, Needs(c)),
           NEW u \in User, NEW t \in User, u.val[c] = t.val[c]
    PROVE  /\ Visible(c, v) <=> Visible(c, w)
           /\ \A m \in In(c) : Holds(Prompt[m], v) <=> Holds(Prompt[m], w)
           /\ Possible(c, v, u) = Possible(c, w, t)
           /\ Picked(c, v, u) = Picked(c, w, t)
<1>1. c \notin Member
      BY ChoiceAssumption DEF Sym
<1>2. \A m \in In(c) \cup {c} : Mentions(Prompt[m]) \subseteq Needs(c)
      BY DEF Needs
<1>3. \A x \in Whens(c) : Mentions(x) \subseteq Needs(c)
  <2>1. Mentions(Always) = {}
        BY DEF Mentions, Always
  <2>. QED  BY <2>1 DEF Needs, Whens
<1>4. \A X : Mentions(X) \subseteq Needs(c) => (Holds(X, v) <=> Holds(X, w))
      BY HoldsLocal DEF Agree
<1>5. Candidates(c, u) = Candidates(c, t)
      BY DEF Candidates
<1>6. \A i \in DOMAIN Candidates(c, u) :
          /\ Candidates(c, u)[i].to \in In(c)
          /\ Candidates(c, u)[i].when \in Whens(c)
      BY CandidatesIn
<1>7. Possible(c, v, u) = Possible(c, w, t)
      BY <1>2, <1>3, <1>4, <1>5, <1>6 DEF Possible
<1>8. Picked(c, v, u) = Picked(c, w, t)
      BY <1>5, <1>7 DEF Picked
<1>. QED  BY <1>1, <1>2, <1>4, <1>7, <1>8 DEF Visible

LEMMA ResultLocal ==
    ASSUME NEW g \in Groups, NEW v, NEW w, Agree(v, w, Needs(g)),
           NEW u \in User, NEW t \in User, SameSet(g, u, t)
    PROVE  Result(g, v, u) = Result(g, w, t)
<1>1. CASE g \in Plain
  <2>1. PlainOn(g, v, u) <=> PlainOn(g, w, t)
        BY <1>1, PlainLocal DEF PlainOn, SameSet
  <2>. QED  BY <1>1, <2>1 DEF Result
<1>2. CASE g \in Choice
  <2>1. g \notin Plain
        BY <1>2, OfWithMembers
  <2>2. /\ Visible(g, v) <=> Visible(g, w)
        /\ Possible(g, v, u) = Possible(g, w, t)
        /\ Picked(g, v, u) = Picked(g, w, t)
        BY <1>2, ChoiceLocal DEF SameSet
  <2>3. ChoiceOn(g, v, u) <=> ChoiceOn(g, w, t)
        BY <2>2 DEF ChoiceOn
  <2>4. \A s : MemberOn(g, s, v, u) <=> MemberOn(g, s, w, t)
        BY <2>2, <2>3 DEF MemberOn
  <2>. QED  BY <2>1, <2>3, <2>4 DEF Result
<1>. QED  BY <1>1, <1>2 DEF Groups

(* Groups that need none outside. *)
Down(D) == D \subseteq Groups /\ \A g \in D : \A s \in Needs(g) : Group(s) \in D

LEMMA NeedsKnown == \A g \in Groups : Needs(g) \subseteq All
<1>1. \A X \in Condition : Mentions(X) \subseteq All
      BY DEF Condition, Alternative, Mentions, All
<1>2. ASSUME NEW g \in Plain
      PROVE  Needs(g) \subseteq All
  <2>1. g \in All /\ g \notin Choice
        BY OfPlain
  <2>2. Prompt[g] \in Condition /\ Select[g] \in Condition
        BY <2>1, PropAssumption
  <2>3. Range(Default[g]) \subseteq [value : Condition, when : Condition]
    <3>. SUFFICES ASSUME NEW i \in DOMAIN Default[g]
                  PROVE  Default[g][i] \in [value : Condition, when : Condition]
         BY DEF Range
    <3>1. Default[g] \in Seq([value : Condition, when : Condition])
          BY PropAssumption
    <3>2. DOMAIN Default[g] = 1..Len(Default[g])
          BY <3>1
    <3>. QED  BY <3>1, <3>2, ElementOfSeq
  <2>. QED  BY <1>1, <2>1, <2>2, <2>3 DEF Needs
<1>3. ASSUME NEW c \in Choice
      PROVE  Needs(c) \subseteq All
  <2>1. \A s \in In(c) \cup {c} : Prompt[s] \in Condition
        BY OfChoice, PropAssumption DEF All, Sym
  <2>2. Range(ChoiceDefault[c]) \subseteq [to : Member, when : Condition]
    <3>. SUFFICES ASSUME NEW i \in DOMAIN ChoiceDefault[c]
                  PROVE  ChoiceDefault[c][i] \in [to : Member, when : Condition]
         BY DEF Range
    <3>1. ChoiceDefault[c] \in Seq([to : Member, when : Condition])
          BY PropAssumption
    <3>2. DOMAIN ChoiceDefault[c] = 1..Len(ChoiceDefault[c])
          BY <3>1
    <3>. QED  BY <3>1, <3>2, ElementOfSeq
  <2>. QED  BY <1>1, <2>1, <2>2 DEF Needs
<1>. QED  BY <1>2, <1>3 DEF Groups

(* Two sets of values that are right for such groups agree on them. *)
LEMMA SameBelow ==
    ASSUME NEW D, Down(D), NEW v, NEW w, NEW u \in User, NEW t \in User,
           \A g \in D : /\ Agree(v, Result(g, v, u), Of(g))
                        /\ Agree(w, Result(g, w, t), Of(g))
                        /\ SameSet(g, u, t)
    PROVE  \A g \in D : Agree(v, w, Of(g))
<1> DEFINE S == {g \in D : ~Agree(v, w, Of(g))}
<1>1. SUFFICES ASSUME S # {}
               PROVE  FALSE
      OBVIOUS
<1>2. S \in SUBSET Groups
      BY DEF Down
<1>3. PICK g \in S : \A s \in Needs(g) : Group(s) \notin S
      BY <1>1, <1>2, NoCircles
<1>4. g \in D /\ g \in Groups
      BY <1>2
<1>5. Agree(v, w, Needs(g))
  <2>. SUFFICES ASSUME NEW s \in Needs(g)
                PROVE  s \in v <=> s \in w
       BY DEF Agree
  <2>1. s \in All /\ Group(s) \in D
        BY <1>4, NeedsKnown DEF Down
  <2>2. Agree(v, w, Of(Group(s)))
        BY <1>3, <2>1
  <2>. QED  BY <2>1, <2>2 DEF Of, Agree
<1>6. Result(g, v, u) = Result(g, w, t)
      BY <1>4, <1>5, ResultLocal
<1>7. Agree(v, w, Of(g))
      BY <1>4, <1>6 DEF Agree
<1>. QED  BY <1>7

(* There are values for any setting. *)
LEMMA SomeValues ==
    ASSUME NEW u \in User
    PROVE  \E v \in SUBSET All : Consistent(v, u)
<1> DEFINE Right(D, v) == \A g \in D : Agree(v, Result(g, v, u), Of(g))
           Done == {D \in SUBSET Groups : Down(D) /\ \E v \in SUBSET All : Right(D, v)}
           V(D) == CHOOSE v \in SUBSET All : Right(D, v)
           U == UNION Done
           all == {s \in All : \E D \in Done : Group(s) \in D /\ s \in V(D)}
<1>1. \A g : SameSet(g, u, u)
      BY DEF SameSet
<1>2. \A D \in Done : V(D) \in SUBSET All /\ Right(D, V(D))
      OBVIOUS
<1>3. \A D \in Done : Down(D)
      OBVIOUS
<1>4. ASSUME NEW D \in Done, NEW E \in Done
      PROVE  \A g \in D \cap E : Agree(V(D), V(E), Of(g))
  <2>1. Down(D \cap E)
        BY <1>3 DEF Down
  <2>2. \A g \in D \cap E : /\ Agree(V(D), Result(g, V(D), u), Of(g))
                            /\ Agree(V(E), Result(g, V(E), u), Of(g))
        BY <1>2
  <2>. HIDE DEF V
  <2>. QED  BY <1>1, <2>1, <2>2, SameBelow
<1>. HIDE DEF V
<1>5. ASSUME NEW D \in Done, NEW g \in D
      PROVE  Agree(all, V(D), Of(g))
  <2>. SUFFICES ASSUME NEW s \in Of(g)
                PROVE  s \in all <=> s \in V(D)
       BY DEF Agree
  <2>1. s \in All /\ Group(s) = g
        BY DEF Of
  <2>2. \A E \in Done : g \in E => (s \in V(D) <=> s \in V(E))
        BY <1>4 DEF Agree
  <2>. QED  BY <2>1, <2>2
<1>6. ASSUME NEW g \in U
      PROVE  Agree(all, Result(g, all, u), Of(g))
  <2>1. PICK D \in Done : g \in D
        OBVIOUS
  <2>2. g \in Groups /\ Down(D)
        BY <2>1
  <2>3. Agree(all, V(D), Needs(g))
    <3>. SUFFICES ASSUME NEW s \in Needs(g)
                  PROVE  s \in all <=> s \in V(D)
         BY DEF Agree
    <3>1. s \in All /\ Group(s) \in D
          BY <2>1, <2>2, NeedsKnown DEF Down
    <3>2. Agree(all, V(D), Of(Group(s)))
          BY <3>1, <1>5
    <3>. QED  BY <3>1, <3>2 DEF Of, Agree
  <2>4. Result(g, all, u) = Result(g, V(D), u)
        BY <1>1, <2>2, <2>3, ResultLocal
  <2>5. Agree(V(D), Result(g, V(D), u), Of(g))
        BY <1>2, <2>1
  <2>. QED  BY <1>5, <2>1, <2>4, <2>5 DEF Agree
<1>7. Down(U) /\ U \in SUBSET Groups
      BY <1>3 DEF Down
<1>8. all \in SUBSET All
      OBVIOUS
<1>9. U = Groups
  <2>1. SUFFICES ASSUME Groups \ U # {}
                 PROVE  FALSE
        BY <1>7
  <2>2. PICK g \in Groups \ U : \A s \in Needs(g) : Group(s) \notin Groups \ U
        BY <2>1, NoCircles
  <2>3. \A s \in Needs(g) : s \in All /\ Group(s) \in U
        BY <2>2, NeedsKnown, GroupIn
  <2> DEFINE w == (all \ Of(g)) \cup Result(g, all, u)
             D == U \cup {g}
  <2>4. D \in SUBSET Groups /\ Down(D)
        BY <1>7, <2>2, <2>3 DEF Down
  <2>5. w \in SUBSET All
        BY <1>8 DEF Result, Of
  <2>6. Agree(w, Result(g, all, u), Of(g))
        BY DEF Agree
  <2>7. \A s \in All : Group(s) \in U => (s \in w <=> s \in all)
        BY <2>2 DEF Result, Of
  <2>8. ASSUME NEW h \in D
        PROVE  Agree(w, Result(h, w, u), Of(h))
    <3>1. h \in Groups
          BY <2>4
    <3>2. \A s \in Needs(h) : s \in All /\ Group(s) \in U
          BY <1>7, <2>3, <3>1, NeedsKnown DEF Down
    <3>3. Agree(all, w, Needs(h))
          BY <2>7, <3>2 DEF Agree
    <3>. HIDE DEF w, all
    <3>4. Result(h, all, u) = Result(h, w, u)
          BY <1>1, <3>1, <3>3, ResultLocal
    <3>5. CASE h = g
          BY <2>6, <3>4, <3>5
    <3>6. CASE h \in U
      <4>1. Agree(all, Result(h, all, u), Of(h))
            BY <1>6, <3>6
      <4>2. Agree(w, all, Of(h))
            BY <2>7, <3>6 DEF Of, Agree
      <4>. QED  BY <3>4, <4>1, <4>2 DEF Agree
    <3>. QED  BY <3>5, <3>6
  <2>. HIDE DEF w
  <2>9. D \in Done
        BY <2>4, <2>5, <2>8
  <2>. QED  BY <2>2, <2>9
<1>. HIDE DEF all, U
<1>. QED  BY <1>6, <1>8, <1>9, ByGroup

(* In a menu that sym_check_deps accepts, what the user set determines the *)
(* values of all symbols and choices: there are such values, and no two.   *)
THEOREM OneSetOfValues == Determined
<1>. SUFFICES ASSUME NEW u \in User
              PROVE  \E v \in SUBSET All :
                         /\ Consistent(v, u)
                         /\ \A w \in SUBSET All : Consistent(w, u) => w = v
     BY DEF Determined
<1>1. PICK v \in SUBSET All : Consistent(v, u)
      BY SomeValues
<1>2. ASSUME NEW w \in SUBSET All, Consistent(w, u)
      PROVE  w = v
  <2>1. \A g \in Groups : /\ Agree(w, Result(g, w, u), Of(g))
                          /\ Agree(v, Result(g, v, u), Of(g))
                          /\ SameSet(g, u, u)
        BY <1>1, <1>2, ByGroup DEF SameSet
  <2>2. Down(Groups)
        BY NeedsKnown, GroupIn DEF Down
  <2>3. \A g \in Groups : Agree(w, v, Of(g))
        BY <2>1, <2>2, SameBelow
  <2>4. \A s \in All : s \in w <=> s \in v
        BY <2>3, GroupIn DEF Of, Agree
  <2>. QED  BY <2>4
<1>. QED  BY <1>1, <1>2

(* What a group needs does not change with what is set of it. *)
LEMMA NeedsUnchanged ==
    ASSUME NEW g \in Groups, NEW v, NEW w, NEW u \in User, NEW t \in User,
           Consistent(v, u), Consistent(w, t),
           \A h \in Groups : h # g => SameSet(h, u, t)
    PROVE  Agree(v, w, Needs(g))
<1> DEFINE D == UNION {E \in SUBSET Groups : Down(E) /\ g \notin E}
<1>1. Down(D) /\ g \notin D
      BY DEF Down
<1>2. \A h \in D : /\ Agree(v, Result(h, v, u), Of(h))
                   /\ Agree(w, Result(h, w, t), Of(h))
                   /\ SameSet(h, u, t)
      BY <1>1, ByGroup DEF Down
<1>3. \A s \in Needs(g) : s \in All /\ Group(s) \in D
  <2>1. PICK h \in Groups \ D : \A s \in Needs(h) : Group(s) \notin Groups \ D
        BY <1>1, NoCircles
  <2>2. \A s \in Needs(h) : s \in All /\ Group(s) \in D
        BY <2>1, NeedsKnown, GroupIn
  <2>3. Down(D \cup {h})
        BY <1>1, <2>1, <2>2 DEF Down
  <2>4. h = g
        BY <1>1, <2>1, <2>3 DEF Down
  <2>. QED  BY <2>2, <2>4
<1>. HIDE DEF D
<1>4. \A h \in D : Agree(v, w, Of(h))
      BY <1>1, <1>2, SameBelow
<1>. QED  BY <1>3, <1>4 DEF Of, Agree

-----------------------------------------------------------------------------
(* Values *)

LEMMA ValueOfSolves ==
    ASSUME NEW u \in User
    PROVE  ValueOf(u) \in SUBSET All /\ Consistent(ValueOf(u), u)
<1> DEFINE v == CHOOSE w \in SUBSET All : Consistent(w, u)
<1>1. v \in SUBSET All /\ Consistent(v, u)
      BY OneSetOfValues DEF Determined
<1>2. <<u, v>> \in Solutions
      BY DEF Solutions
<1>3. \A e \in Solutions : e[1] = u => e = <<u, v>>
      BY DEF Solutions
<1>4. ValueOf(u) = v
      BY <1>2, <1>3 DEF ValueOf
<1>. QED  BY <1>1, <1>4

LEMMA OneSolution ==
    ASSUME NEW u \in User, NEW v \in SUBSET All, Consistent(v, u)
    PROVE  ValueOf(u) = v
BY ValueOfSolves, OneSetOfValues DEF Determined

(* A choice that is on has exactly one member that is on. *)
LEMMA OneMember ==
    ASSUME NEW u \in User, NEW v, Consistent(v, u), NEW c \in Choice
    PROVE  /\ c \in v => /\ Picked(c, v, u) \in In(c)
                         /\ Holds(Prompt[Picked(c, v, u)], v)
                         /\ \A m \in In(c) : m \in v <=> m = Picked(c, v, u)
           /\ c \notin v => \A m \in In(c) : m \notin v
BY PossibleIffOpen DEF Consistent, ChoiceOn, MemberOn

LEMMA NoUserType == NoUser \in User
BY DEF NoUser, User, Vals, Setting

LEMMA SetDefType ==
    ASSUME NEW u \in User, NEW d \in [Plain -> Setting]
    PROVE  [u EXCEPT !.def = d] \in User /\ [u EXCEPT !.def = d].val = u.val
BY DEF User

LEMMA SetValType ==
    ASSUME NEW u \in User, NEW c \in Choice, NEW m \in In(c)
    PROVE  /\ [u EXCEPT !.val[c] = m] \in User
           /\ [u EXCEPT !.val[c] = m].def = u.def
           /\ [u EXCEPT !.val[c] = m].val = [u.val EXCEPT ![c] = m]
<1>1. m \in Member
      BY OfChoice
<1>2. [u.val EXCEPT ![c] = m] \in Vals
      BY <1>1 DEF User, Vals
<1>. QED  BY <1>2 DEF User

(* The values do not change if settings of invisible symbols do. *)
LEMMA InvisibleDoesNotCount ==
    ASSUME NEW u \in User, NEW w \in User, NEW v, Consistent(v, u),
           u.val = w.val,
           \A s \in Plain : Visible(s, v) =>
               w.def[s] = u.def[s] \/ (w.def[s] = OnOff(s \in v))
    PROVE  Consistent(v, w)
<1>1. \A c \in Choice : Candidates(c, u) = Candidates(c, w)
      BY DEF Candidates
<1>2. \A c \in Choice : /\ Possible(c, v, u) = Possible(c, v, w)
                        /\ Picked(c, v, u) = Picked(c, v, w)
      BY <1>1 DEF Possible, Picked
<1>3. ASSUME NEW s \in Plain
      PROVE  s \in v <=> PlainOn(s, v, w)
  <2>1. s \in v <=> PlainOn(s, v, u)
        BY DEF Consistent
  <2>2. CASE ~Visible(s, v)
        BY <2>1, <2>2 DEF PlainOn
  <2>3. CASE Visible(s, v) /\ w.def[s] = u.def[s]
        BY <2>1, <2>3 DEF PlainOn
  <2>4. CASE Visible(s, v) /\ w.def[s] = OnOff(s \in v)
        BY <2>1, <2>4 DEF PlainOn, OnOff
  <2>. QED  BY <2>2, <2>3, <2>4
<1>. QED  BY <1>2, <1>3 DEF Consistent, ChoiceOn, MemberOn

-----------------------------------------------------------------------------
(* Files *)

LEMMA WriteGivesValues ==
    ASSUME NEW v, NEW u \in User, Consistent(v, u), NEW mark \in SUBSET Member,
           WriteFile(v, mark)
    PROVE  /\ HasValues(file', v)
           /\ file' \in File
           /\ saved' = v
<1>1. file' = [s \in Sym |-> IF s \in Written(v) \cup mark
                             THEN OnOff(s \in v) ELSE "absent"]
      BY DEF WriteFile
<1>2. file' \in File
      BY <1>1 DEF File, Line, OnOff
<1>3. ASSUME NEW m \in Member, m \notin Written(v)
      PROVE  m \notin v
  <2>1. PICK c \in Choice : m \in In(c)
        BY DEF Member
  <2>2. ~Visible(c, v)
        BY <1>3, <2>1 DEF Written, ChoiceWritten
  <2>. QED  BY <2>1, <2>2 DEF Consistent, MemberOn, ChoiceOn
<1>4. HasValues(file', v)
  <2>1. file' # NoFile
        BY <1>2, FileAssumption
  <2>2. ASSUME NEW s \in Sym
        PROVE  IF s \in Written(v) THEN file'[s] = OnOff(s \in v)
               ELSE file'[s] \in {"absent"} \cup (IF s \in Member THEN {"n"} ELSE {})
        BY <1>1, <1>3 DEF OnOff
  <2>. QED  BY <2>1, <2>2 DEF HasValues
<1>. QED  BY <1>2, <1>4 DEF WriteFile

LEMMA SettingsRead ==
    ASSUME NEW f \in File, NEW u \in ReadSettings(f)
    PROVE  /\ u \in User
           /\ \A s \in Plain : u.def[s] = (IF f[s] = "absent" THEN "new" ELSE f[s])
           /\ \A c \in Choice :
                  LET set == {m \in In(c) : f[m] = "y"}
                  IN  u.val[c] \in IF set = {} THEN {None} ELSE set
<1>1. PICK g \in Vals :
          /\ \A c \in Choice : LET set == {m \in In(c) : f[m] = "y"}
                               IN  g[c] \in IF set = {} THEN {None} ELSE set
          /\ u = [def |-> [s \in Plain |-> IF f[s] = "absent" THEN "new" ELSE f[s]],
                  val |-> g]
      BY DEF ReadSettings
<1>2. \A s \in Plain : f[s] \in Line
      BY DEF File, Sym
<1>. QED  BY <1>1, <1>2 DEF User, Setting, Line

(* What a file with the values v sets gives v again. *)
LEMMA ReadBack ==
    ASSUME NEW f \in File, NEW v \in SUBSET All, NEW u \in User,
           Consistent(v, u), HasValues(f, v), NEW w \in ReadSettings(f)
    PROVE  ValueOf(w) = v
<1>1. /\ w \in User
      /\ \A s \in Plain : w.def[s] = (IF f[s] = "absent" THEN "new" ELSE f[s])
      /\ \A c \in Choice :
             LET set == {m \in In(c) : f[m] = "y"}
             IN  w.val[c] \in IF set = {} THEN {None} ELSE set
      BY SettingsRead
<1>2. ASSUME NEW s \in Plain
      PROVE  s \in v <=> PlainOn(s, v, w)
  <2>1. s \in v <=> PlainOn(s, v, u)
        BY DEF Consistent
  <2>2. CASE ~Visible(s, v)
        BY <2>1, <2>2 DEF PlainOn
  <2>3. CASE Visible(s, v)
    <3>1. f[s] = OnOff(s \in v)
          BY <2>3 DEF HasValues, Written, Sym
    <3>2. w.def[s] = OnOff(s \in v)
          BY <1>1, <3>1 DEF OnOff
    <3>. QED  BY <2>1, <2>3, <3>2 DEF PlainOn, OnOff
  <2>. QED  BY <2>2, <2>3
<1>3. ASSUME NEW c \in Choice
      PROVE  /\ c \in v <=> ChoiceOn(c, v, w)
             /\ \A m \in In(c) : m \in v <=> MemberOn(c, m, v, w)
  <2>1. c \in v <=> ChoiceOn(c, v, w)
        BY <1>1, PossibleIffOpen DEF Consistent, ChoiceOn
  <2>2. CASE c \notin v
        BY <2>1, <2>2, OneMember DEF MemberOn
  <2>3. CASE c \in v
    <3> DEFINE m0 == Picked(c, v, u)
    <3>1. /\ m0 \in In(c)
          /\ Holds(Prompt[m0], v)
          /\ \A m \in In(c) : m \in v <=> m = m0
          BY <2>3, OneMember
    <3>2. Visible(c, v)
          BY <2>3 DEF Consistent, ChoiceOn
    <3>3. \A m \in In(c) : m \in Written(v) /\ m \in Sym
          BY <3>2, OfChoice DEF Written, ChoiceWritten, Sym
    <3>4. \A m \in In(c) : f[m] = OnOff(m \in v)
          BY <3>3 DEF HasValues
    <3>5. {m \in In(c) : f[m] = "y"} = {m0}
          BY <3>1, <3>4 DEF OnOff
    <3>6. w.val[c] = m0
          BY <1>1, <3>5
    <3>7. Picked(c, v, w) = m0
          BY <1>1, <3>1, <3>6, OwnIsPicked
    <3>. QED  BY <2>1, <2>3, <3>1, <3>7 DEF MemberOn
  <2>. QED  BY <2>1, <2>2, <2>3
<1>4. Consistent(v, w)
      BY <1>2, <1>3 DEF Consistent
<1>. QED  BY <1>1, <1>4, OneSolution

-----------------------------------------------------------------------------
(* The inductive invariant *)

(* What a program wrote are values of this menu. *)
SavedGiven ==
    saved # Foreign => /\ \E u \in User : Consistent(saved, u)
                       /\ HasValues(file, saved)

(* A program starts with nothing set and no mark. *)
NothingHeld == prog = "none" => user = NoUser /\ marked = {}

IInv ==
    /\ TypeOK
    /\ Fresh
    /\ InSync
    /\ SavedGiven
    /\ NothingHeld

LEMMA InitIInv == Init => IInv
<1>. HAVE Init
<1>1. TypeOK
  <2>1. prog \in {"none", "ask", "edit"} /\ user \in User
        BY NoUserType DEF Init
  <2>2. on \subseteq All /\ has \subseteq Member \cup Choice /\ marked \subseteq Member
        BY DEF Init
  <2>3. changed \in BOOLEAN /\ file \in File \cup {NoFile}
        BY DEF Init
  <2>4. saved \in (SUBSET All) \cup {Foreign} /\ (saved # Foreign => file # NoFile)
        BY Zenon DEF Init
  <2>. QED  BY <2>1, <2>2, <2>3, <2>4 DEF TypeOK
<1>. QED  BY <1>1 DEF Init, IInv, Fresh, InSync, SavedGiven, NothingHeld

LEMMA ChoiceWrittenType == \A v : ChoiceWritten(v) \in SUBSET Member
BY OfChoice DEF ChoiceWritten

(* Reading a file: what the program holds afterwards. *)
LEMMA ReadHolds ==
    ASSUME IInv, file # NoFile, Read
    PROVE  /\ user' \in User
           /\ on' \in SUBSET All
           /\ has' \subseteq Member \cup Choice
           /\ marked' = marked \cup ChoiceWritten(on')
           /\ changed' \in BOOLEAN
           /\ changed' <=> Unsaved(file, on', marked') \/ prog # "none"
           /\ Consistent(on', user')
<1>1. PICK u \in ReadSettings(file) :
          /\ user' = ReadUser(u, ValueOf(u), Unsaved(file, ValueOf(u),
                              marked \cup ChoiceWritten(ValueOf(u))))
          /\ on' = ValueOf(u)
          /\ has' = ReadHas(file, ValueOf(u), Unsaved(file, ValueOf(u),
                              marked \cup ChoiceWritten(ValueOf(u))))
          /\ marked' = marked \cup ChoiceWritten(ValueOf(u))
          /\ changed' = (Unsaved(file, ValueOf(u),
                              marked \cup ChoiceWritten(ValueOf(u))) \/ prog # "none")
      BY DEF Read
<1>2. u \in User
      BY SettingsRead DEF IInv, TypeOK
<1>3. on' \in SUBSET All /\ Consistent(on', u)
      BY <1>1, <1>2, ValueOfSolves
<1>4. has' \subseteq Member \cup Choice
      BY <1>1 DEF ReadHas
<1> DEFINE U == Unsaved(file, on', marked')
           d == [s \in Plain |-> IF Visible(s, on') \/ U THEN u.def[s] ELSE "new"]
<1>5. user' = [u EXCEPT !.def = d]
      BY <1>1 DEF ReadUser
<1>6. d \in [Plain -> Setting]
      BY <1>2 DEF User, Setting
<1>7. user' \in User /\ user'.val = u.val
      BY <1>2, <1>5, <1>6, SetDefType
<1>8. user'.def = d
      BY <1>2, <1>5 DEF User
<1>9. Consistent(on', user')
      BY <1>2, <1>3, <1>7, <1>8, InvisibleDoesNotCount
<1>10. /\ changed' \in BOOLEAN
       /\ changed' <=> Unsaved(file, on', marked') \/ prog # "none"
  <2>1. changed' = (Unsaved(file, on', marked') \/ prog # "none")
        BY <1>1
  <2>. QED  BY <2>1
<1>. QED  BY <1>1, <1>3, <1>4, <1>7, <1>9, <1>10

LEMMA StartKeeps ==
    ASSUME IInv, NEW p \in {"ask", "edit"}, Start(p)
    PROVE  IInv'
<1>1. /\ prog = "none" /\ file # NoFile /\ prog' = p /\ Read
      /\ file' = file /\ saved' = saved
      BY DEF Start
<1>2. marked = {}
      BY <1>1 DEF IInv, NothingHeld
<1>3. /\ user' \in User /\ on' \in SUBSET All /\ has' \subseteq Member \cup Choice
      /\ marked' = ChoiceWritten(on')
      /\ changed' \in BOOLEAN
      /\ changed' <=> Unsaved(file, on', marked')
      /\ Consistent(on', user')
      BY <1>1, <1>2, ReadHolds
<1>4. TypeOK'
  <2>1. marked' \subseteq Member
        BY <1>3, ChoiceWrittenType
  <2>. QED  BY <1>1, <1>3, <2>1 DEF IInv, TypeOK
<1>5. Fresh'
      BY <1>3 DEF Fresh
<1>6. InSync'
  <2>. SUFFICES ASSUME ~Unsaved(file, on', marked')
                PROVE  HasValues(file, on')
       BY <1>1, <1>3 DEF InSync
  <2>1. marked' \subseteq Written(on')
        BY <1>3 DEF Written
  <2>. QED  BY <1>1, <2>1 DEF HasValues, Unsaved
<1>7. SavedGiven'
      BY <1>1 DEF IInv, SavedGiven
<1>8. NothingHeld'
      BY <1>1 DEF NothingHeld
<1>. QED  BY <1>4, <1>5, <1>6, <1>7, <1>8 DEF IInv

LEMMA StartNewKeeps ==
    ASSUME IInv, NEW p \in {"ask", "edit"}, StartNew(p)
    PROVE  IInv'
<1>1. ValueOf(NoUser) \in SUBSET All
      BY NoUserType, ValueOfSolves
<1>2. TypeOK'
      BY <1>1 DEF IInv, TypeOK, StartNew
<1>3. Fresh'
  <2>1. user = NoUser
        BY DEF StartNew, IInv, NothingHeld
  <2>. QED  BY <2>1, NoUserType, ValueOfSolves DEF Fresh, StartNew
<1>. QED  BY <1>2, <1>3 DEF IInv, StartNew, InSync, SavedGiven, NothingHeld

(* What the calculation after a setting leaves. *)
LEMMA RecalculateHolds ==
    ASSUME IInv, user' \in User, NEW anew \in BOOLEAN, Recalculate(anew),
           ~anew => Consistent(on, user')
    PROVE  /\ on' \in SUBSET All
           /\ Consistent(on', user')
           /\ marked' \subseteq Member
           /\ changed' \in BOOLEAN
           /\ ~changed' => ~changed /\ on' = on
<1>1. CASE anew
  <2>1. on' = ValueOf(user')
        BY <1>1 DEF Recalculate
  <2>2. changed' = TRUE
    <3>1. changed' = (changed \/ anew)
          BY DEF Recalculate
    <3>. QED  BY <3>1, <1>1
  <2>3. marked' \subseteq Member
    <3>1. PICK C \in SUBSET Choice :
              marked' = marked \cup UNION {In(c) : c \in {d \in C : Visible(d, on')}}
          BY <1>1 DEF Recalculate
    <3>2. \A c \in Choice : In(c) \subseteq Member
          BY OfChoice
    <3>. QED  BY <3>1, <3>2 DEF IInv, TypeOK
  <2>. QED  BY <2>1, <2>2, <2>3, ValueOfSolves
<1>2. CASE ~anew
  <2>1. on' = on /\ marked' = marked
        BY <1>2 DEF Recalculate
  <2>2. changed' = changed
    <3>1. changed' = (changed \/ anew)
          BY DEF Recalculate
    <3>2. changed \in BOOLEAN
          BY DEF IInv, TypeOK
    <3>. QED  BY <3>1, <3>2, <1>2
  <2>. QED  BY <1>2, <2>1, <2>2 DEF IInv, TypeOK
<1>. QED  BY <1>1, <1>2

LEMMA SetPlainKeeps ==
    ASSUME IInv, prog # "none", NEW s \in Plain, NEW val \in {"n", "y"},
           SetPlain(s, val)
    PROVE  IInv'
<1> DEFINE anew == val # OnOff(s \in on)
<1>1. /\ prog' = prog /\ has' = has /\ file' = file /\ saved' = saved
      /\ user' = [user EXCEPT !.def[s] = val]
      /\ Recalculate(anew)
      BY DEF SetPlain
<1>2. /\ user \in User /\ user' \in User
      /\ user'.val = user.val
      /\ user'.def = [user.def EXCEPT ![s] = val]
      BY <1>1 DEF IInv, TypeOK, User, Setting
<1>3. ~anew => Consistent(on, user')
  <2>. HAVE ~anew
  <2>1. Consistent(on, user)
        BY DEF IInv, Fresh
  <2>2. \A t \in Plain : user'.def[t] = user.def[t] \/ user'.def[t] = OnOff(t \in on)
        BY <1>2 DEF User
  <2>. QED  BY <1>2, <2>1, <2>2, InvisibleDoesNotCount
<1>4. /\ on' \in SUBSET All /\ Consistent(on', user') /\ marked' \subseteq Member
      /\ changed' \in BOOLEAN
      /\ ~changed' => ~changed /\ on' = on
  <2>1. anew \in BOOLEAN
        OBVIOUS
  <2>. HIDE DEF anew
  <2>. QED  BY <1>1, <1>2, <1>3, <2>1, RecalculateHolds
<1>5. TypeOK'
      BY <1>1, <1>2, <1>4 DEF IInv, TypeOK
<1>6. Fresh' /\ InSync' /\ SavedGiven' /\ NothingHeld'
      BY <1>1, <1>4 DEF IInv, Fresh, InSync, SavedGiven, NothingHeld
<1>. QED  BY <1>5, <1>6 DEF IInv

LEMMA SetMemberKeeps ==
    ASSUME IInv, prog # "none", NEW m \in Member, SetMember(m)
    PROVE  IInv'
<1>1. PICK c \in Choice : m \in In(c)
      BY DEF Member
<1>2. ChoiceOf(m) = c
      BY <1>1, OfChoice
<1>3. /\ prog' = prog /\ file' = file /\ saved' = saved
      /\ Visible(m, on)
      /\ user' = [user EXCEPT !.val[c] = m]
      /\ has' = has \cup {c} \cup {n \in In(c) : Visible(n, on)}
      /\ Recalculate(m \notin on)
      BY <1>2 DEF SetMember
<1>4. user \in User /\ user' \in User /\ user'.def = user.def
      /\ user'.val = [user.val EXCEPT ![c] = m]
      BY <1>1, <1>3, SetValType DEF IInv, TypeOK
<1>5. m \in on => Consistent(on, user')
  <2>. HAVE m \in on
  <2>1. Consistent(on, user)
        BY DEF IInv, Fresh
  <2>2. c \in on /\ m = Picked(c, on, user)
        BY <1>1, <1>4, <2>1, OneMember
  <2>3. Picked(c, on, user') = m
    <3>1. Holds(Prompt[m], on)
          BY <1>3 DEF Visible
    <3>2. user'.val[c] = m
          BY <1>4 DEF User, Vals
    <3>. QED  BY <1>1, <1>4, <3>1, <3>2, OwnIsPicked
  <2>4. \A d \in Choice : d # c =>
            /\ Possible(d, on, user) = Possible(d, on, user')
            /\ Picked(d, on, user) = Picked(d, on, user')
    <3>. TAKE d \in Choice
    <3>. HAVE d # c
    <3>1. user'.val[d] = user.val[d]
          BY <1>4 DEF User, Vals
    <3>2. Candidates(d, user) = Candidates(d, user')
          BY <3>1 DEF Candidates
    <3>. QED  BY <3>2 DEF Possible, Picked
  <2>5. \A s \in Plain : s \in on <=> PlainOn(s, on, user')
        BY <1>4, <2>1 DEF Consistent, PlainOn
  <2>6. ASSUME NEW d \in Choice
        PROVE  /\ d \in on <=> ChoiceOn(d, on, user')
               /\ \A n \in In(d) : n \in on <=> MemberOn(d, n, on, user')
    <3>1. /\ d \in on <=> ChoiceOn(d, on, user)
          /\ \A n \in In(d) : n \in on <=> MemberOn(d, n, on, user)
          BY <2>1 DEF Consistent
    <3>2. ChoiceOn(d, on, user) <=> ChoiceOn(d, on, user')
          BY <1>4, PossibleIffOpen DEF ChoiceOn
    <3>3. Picked(d, on, user) = Picked(d, on, user')
          BY <2>2, <2>3, <2>4
    <3>. QED  BY <3>1, <3>2, <3>3 DEF MemberOn
  <2>. QED  BY <2>5, <2>6 DEF Consistent
<1>6. /\ on' \in SUBSET All /\ Consistent(on', user') /\ marked' \subseteq Member
      /\ changed' \in BOOLEAN
      /\ ~changed' => ~changed /\ on' = on
      BY <1>3, <1>4, <1>5, RecalculateHolds
<1>7. TypeOK'
  <2>1. \A n \in In(c) : n \in Member
        BY OfChoice
  <2>2. has' \subseteq Member \cup Choice
        BY <1>3, <2>1 DEF IInv, TypeOK
  <2>. QED  BY <1>3, <1>4, <1>6, <2>2 DEF IInv, TypeOK
<1>8. Fresh' /\ InSync' /\ SavedGiven' /\ NothingHeld'
      BY <1>3, <1>6 DEF IInv, Fresh, InSync, SavedGiven, NothingHeld
<1>. QED  BY <1>7, <1>8 DEF IInv

LEMMA ExitKeeps ==
    ASSUME IInv, Exit,
           file' \in File \cup {NoFile}, saved' \in (SUBSET All) \cup {Foreign},
           saved' # Foreign => file' # NoFile, SavedGiven'
    PROVE  IInv'
<1>1. TypeOK'
      BY NoUserType DEF Exit, TypeOK
<1>2. Fresh' /\ InSync' /\ NothingHeld'
      BY DEF Exit, Fresh, InSync, NothingHeld
<1>. QED  BY <1>1, <1>2 DEF IInv

LEMMA SaveKeeps ==
    ASSUME IInv, Save
    PROVE  IInv'
<1>1. /\ prog = "edit" /\ WriteFile(on, marked)
      /\ marked' = {} /\ changed' = FALSE
      /\ prog' = prog /\ user' = user /\ on' = on /\ has' = has
      BY DEF Save
<1>2. user \in User /\ Consistent(on, user) /\ on \in SUBSET All
      /\ marked \in SUBSET Member
      BY <1>1 DEF IInv, TypeOK, Fresh
<1>3. HasValues(file', on) /\ file' \in File /\ saved' = on
      BY <1>1, <1>2, WriteGivesValues
<1>4. TypeOK'
      BY <1>1, <1>2, <1>3, FileAssumption DEF IInv, TypeOK
<1>5. Fresh' /\ InSync' /\ SavedGiven' /\ NothingHeld'
      BY <1>1, <1>2, <1>3 DEF Fresh, InSync, SavedGiven, NothingHeld
<1>. QED  BY <1>4, <1>5 DEF IInv

LEMMA LoadKeeps ==
    ASSUME IInv, Load
    PROVE  IInv'
<1>1. /\ prog = "edit" /\ file # NoFile /\ Read
      /\ prog' = prog /\ file' = file /\ saved' = saved
      BY DEF Load
<1>2. /\ user' \in User /\ on' \in SUBSET All /\ has' \subseteq Member \cup Choice
      /\ marked' = marked \cup ChoiceWritten(on')
      /\ changed' = TRUE
      /\ Consistent(on', user')
      BY <1>1, ReadHolds
<1>3. TypeOK'
  <2>1. marked' \subseteq Member
        BY <1>2, ChoiceWrittenType DEF IInv, TypeOK
  <2>. QED  BY <1>1, <1>2, <2>1 DEF IInv, TypeOK
<1>4. Fresh' /\ InSync' /\ SavedGiven' /\ NothingHeld'
      BY <1>1, <1>2 DEF IInv, Fresh, InSync, SavedGiven, NothingHeld
<1>. QED  BY <1>3, <1>4 DEF IInv

LEMMA FinishKeeps ==
    ASSUME IInv, Finish
    PROVE  IInv'
<1>1. prog # "none" /\ WriteFile(on, marked) /\ Exit
      BY DEF Finish
<1>2. user \in User /\ Consistent(on, user) /\ on \in SUBSET All
      /\ marked \in SUBSET Member
      BY <1>1 DEF IInv, TypeOK, Fresh
<1>3. HasValues(file', on) /\ file' \in File /\ saved' = on
      BY <1>1, <1>2, WriteGivesValues
<1>4. SavedGiven'
      BY <1>2, <1>3 DEF SavedGiven
<1>. QED  BY <1>1, <1>2, <1>3, <1>4, ExitKeeps, FileAssumption

LEMMA LeaveKeeps ==
    ASSUME IInv, Leave \/ Abort
    PROVE  IInv'
<1>1. Exit /\ file' = file /\ saved' = saved
      BY DEF Leave, Abort
<1>2. SavedGiven'
      BY <1>1 DEF IInv, SavedGiven
<1>. QED  BY <1>1, <1>2, ExitKeeps DEF IInv, TypeOK

(* The programs that only write. *)
LEMMA WrittenKeeps ==
    ASSUME IInv, prog = "none", NEW v \in SUBSET All, NEW u \in User, Consistent(v, u),
           WriteFile(v, {}), UNCHANGED <<prog, user, on, has, marked, changed>>
    PROVE  IInv'
<1>1. HasValues(file', v) /\ file' \in File /\ saved' = v
      BY WriteGivesValues
<1>2. TypeOK'
      BY <1>1, FileAssumption DEF IInv, TypeOK
<1>3. Fresh' /\ InSync' /\ SavedGiven' /\ NothingHeld'
      BY <1>1 DEF IInv, Fresh, InSync, SavedGiven, NothingHeld
<1>. QED  BY <1>2, <1>3 DEF IInv

LEMMA DefconfigKeeps ==
    ASSUME IInv, Defconfig
    PROVE  IInv'
<1>1. PICK e \in Solutions : WriteFile(e[2], {})
      BY DEF Defconfig
<1>2. PICK u \in User : e[2] = CHOOSE v \in SUBSET All : Consistent(v, u)
      BY <1>1 DEF Solutions
<1>3. e[2] \in SUBSET All /\ Consistent(e[2], u)
      BY <1>2, OneSetOfValues DEF Determined
<1>. QED  BY <1>1, <1>3, WrittenKeeps DEF Defconfig

LEMMA AllNewKeeps ==
    ASSUME IInv, NEW val \in {"n", "y"}, AllNew(val)
    PROVE  IInv'
<1>0. PICK S \in SUBSET Sym : \E u \in ReadSettings(Part(S)) :
          WriteFile(ValueOf([u EXCEPT !.def = [s \in Plain |->
                        IF u.def[s] = "new" THEN val ELSE u.def[s]]]), {})
      BY DEF AllNew
<1>1. PICK u \in ReadSettings(Part(S)) :
          WriteFile(ValueOf([u EXCEPT !.def = [s \in Plain |->
                        IF u.def[s] = "new" THEN val ELSE u.def[s]]]), {})
      BY <1>0
<1> DEFINE d == [s \in Plain |-> IF u.def[s] = "new" THEN val ELSE u.def[s]]
           w == [u EXCEPT !.def = d]
<1>2. Part(S) \in File
      BY DEF IInv, TypeOK, Part, File, Line
<1>3. w \in User
  <2>1. u \in User
        BY <1>1, <1>2, SettingsRead
  <2>2. d \in [Plain -> Setting]
        BY <2>1 DEF User, Setting
  <2>. QED  BY <2>1, <2>2, SetDefType
<1>4. WriteFile(ValueOf(w), {})
      BY <1>1
<1>. HIDE DEF w
<1>5. ValueOf(w) \in SUBSET All /\ Consistent(ValueOf(w), w)
      BY <1>3, ValueOfSolves
<1>. QED  BY <1>3, <1>4, <1>5, WrittenKeeps DEF AllNew

LEMMA TouchChoiceKeeps ==
    ASSUME IInv, NEW c \in Choice, TouchChoice(c)
    PROVE  IInv'
<1>1. TypeOK'
      BY DEF IInv, TypeOK, TouchChoice
<1>2. Fresh' /\ InSync' /\ SavedGiven' /\ NothingHeld'
      BY DEF IInv, TouchChoice, Fresh, InSync, SavedGiven, NothingHeld
<1>. QED  BY <1>1, <1>2 DEF IInv

LEMMA WalkKeeps ==
    ASSUME IInv, NEW c \in Choice, Walk(c)
    PROVE  IInv'
<1>1. prog = "ask" /\ c \in on /\ SetMember(Picked(c, on, user))
      BY DEF Walk
<1>2. user \in User /\ Consistent(on, user)
      BY <1>1 DEF IInv, TypeOK, Fresh
<1>3. Picked(c, on, user) \in In(c)
      BY <1>1, <1>2, OneMember
<1>. QED  BY <1>1, <1>3, OfChoice, SetMemberKeeps

LEMMA NextKeeps == IInv /\ [Next]_vars => IInv'
<1>. SUFFICES ASSUME IInv, [Next]_vars
              PROVE  IInv'
     OBVIOUS
<1>1. CASE \E p \in {"ask", "edit"} : Start(p) \/ StartNew(p)
      BY <1>1, StartKeeps, StartNewKeeps
<1>2. CASE \E val \in {"n", "y"} : AllNew(val)
      BY <1>2, AllNewKeeps
<1>3. CASE Defconfig
      BY <1>3, DefconfigKeeps
<1>4. CASE AskStep
  <2>1. CASE \E s \in Plain, val \in {"n", "y"} : Answer(s, val)
        BY <2>1, SetPlainKeeps DEF Answer
  <2>2. CASE \E c \in Choice, m \in Member : AnswerChoice(c, m)
        BY <2>2, SetMemberKeeps DEF AnswerChoice
  <2>3. CASE \E c \in Choice : Walk(c)
        BY <2>3, WalkKeeps
  <2>4. CASE Finish
        BY <2>4, FinishKeeps
  <2>. QED  BY <1>4, <2>1, <2>2, <2>3, <2>4 DEF AskStep
<1>5. CASE EditStep
  <2>1. CASE \E s \in Plain, val \in {"n", "y"} : Toggle(s, val)
        BY <2>1, SetPlainKeeps DEF Toggle
  <2>2. CASE \E m \in Member : PickMember(m)
        BY <2>2, SetMemberKeeps DEF PickMember
  <2>3. CASE \E c \in Choice : TouchChoice(c)
        BY <2>3, TouchChoiceKeeps
  <2>4. CASE Save
        BY <2>4, SaveKeeps
  <2>5. CASE Load
        BY <2>5, LoadKeeps
  <2>6. CASE Leave
        BY <2>6, LeaveKeeps
  <2>. QED  BY <1>5, <2>1, <2>2, <2>3, <2>4, <2>5, <2>6 DEF EditStep
<1>6. CASE Abort
      BY <1>6, LeaveKeeps
<1>7. CASE UNCHANGED vars
  <2>1. TypeOK'
        BY <1>7 DEF IInv, TypeOK, vars
  <2>2. Fresh' /\ InSync' /\ SavedGiven' /\ NothingHeld'
        BY <1>7 DEF IInv, vars, Fresh, InSync, SavedGiven, NothingHeld
  <2>. QED  BY <2>1, <2>2 DEF IInv
<1>. QED  BY <1>1, <1>2, <1>3, <1>4, <1>5, <1>6, <1>7 DEF Next

LEMMA Invariant == Spec => []IInv
BY InitIInv, NextKeeps, PTL DEF Spec

-----------------------------------------------------------------------------
(* Theorems *)

(* Every program holds only values and settings of the menu, and every     *)
(* file that one of them wrote exists.                                     *)
THEOREM SessionTyped == Spec => []TypeOK
<1>1. IInv => TypeOK
      BY DEF IInv
<1>. QED  BY <1>1, Invariant, PTL

(* The values that sym_set_tristate_value leaves alone because the symbol  *)
(* has the value already, and those that conf_read leaves alone when it    *)
(* drops what is invisible, are those the settings give.                   *)
THEOREM NeverStale == Spec => []Fresh
<1>1. IInv => Fresh
      BY DEF IInv
<1>. QED  BY <1>1, Invariant, PTL

(* Where conf_get_changed() is 0, .config has the values of the program,   *)
(* so that mconf need not ask before it ends.                              *)
THEOREM NothingToSave == Spec => []InSync
<1>1. IInv => InSync
      BY DEF IInv
<1>. QED  BY <1>1, Invariant, PTL

(* Starting on a file that a program wrote. *)
LEMMA StartReadsBack ==
    ASSUME IInv, NEW p \in {"ask", "edit"}, Start(p), saved # Foreign
    PROVE  /\ file \in File /\ HasValues(file, saved)
           /\ on' = saved
<1>1. file # NoFile /\ file \in File /\ saved \in SUBSET All
      BY DEF IInv, TypeOK
<1>2. PICK u \in User : Consistent(saved, u)
      BY DEF IInv, SavedGiven
<1>3. HasValues(file, saved)
      BY DEF IInv, SavedGiven
<1>4. PICK w \in ReadSettings(file) : on' = ValueOf(w)
      BY DEF Start, Read
<1>. QED  BY <1>1, <1>2, <1>3, <1>4, ReadBack

(* conf_write and then conf_read, in another program, give all symbols and *)
(* choices the same values.                                                *)
THEOREM ReadsBack == Spec => RoundTrip
<1>1. IInv /\ [Next]_vars =>
          [\A p \in {"ask", "edit"} :
               Start(p) /\ saved # Foreign => on' = saved]_vars
      BY StartReadsBack
<1>. QED  BY <1>1, Invariant, PTL DEF Spec, RoundTrip

(* A file that conf_write wrote has a line that sets a member of each      *)
(* choice that is on, and only of those, and never two.                    *)
THEOREM OneLineSet == Spec => []OneSet
<1>1. IInv => OneSet
  <2>. SUFFICES ASSUME IInv, saved # Foreign, NEW c \in Choice
                PROVE  Cardinality({m \in In(c) : file[m] = "y"})
                           = (IF c \in saved THEN 1 ELSE 0)
       BY DEF OneSet
  <2>1. PICK u \in User : Consistent(saved, u)
        BY DEF IInv, SavedGiven
  <2>2. HasValues(file, saved)
        BY DEF IInv, SavedGiven
  <2>3. \A m \in In(c) : file[m] = "y" <=> m \in saved
    <3>. TAKE m \in In(c)
    <3>1. m \in Sym
          BY OfChoice DEF Sym
    <3>2. CASE m \in Written(saved)
          BY <2>2, <3>1, <3>2 DEF HasValues, OnOff
    <3>3. CASE m \notin Written(saved)
      <4>1. ~Visible(c, saved)
            BY <3>3 DEF Written, ChoiceWritten
      <4>2. m \notin saved
            BY <2>1, <4>1 DEF Consistent, MemberOn, ChoiceOn
      <4>3. file[m] \in {"absent", "n"}
            BY <2>2, <3>1, <3>3 DEF HasValues
      <4>. QED  BY <4>2, <4>3
    <3>. QED  BY <3>2, <3>3
  <2>4. CASE c \in saved
    <3>1. {m \in In(c) : file[m] = "y"} = {Picked(c, saved, u)}
          BY <2>1, <2>3, <2>4, OneMember
    <3>. QED  BY <2>4, <3>1, FS_Singleton
  <2>5. CASE c \notin saved
    <3>1. {m \in In(c) : file[m] = "y"} = {}
          BY <2>1, <2>3, <2>5, OneMember
    <3>. QED  BY <2>5, <3>1, FS_EmptySet
  <2>. QED  BY <2>4, <2>5
<1>. QED  BY <1>1, Invariant, PTL

(* A program that reads a file with no superfluous line has nothing to     *)
(* save: what is written is what conf_read expects.                        *)
THEOREM ReadsQuietly == Spec => QuietRead
<1>1. IInv /\ [Next]_vars =>
          [\A p \in {"ask", "edit"} :
               Start(p) /\ saved # Foreign /\ Clean => ~changed']_vars
  <2>. SUFFICES ASSUME IInv, NEW p \in {"ask", "edit"},
                       Start(p), saved # Foreign, Clean
                PROVE  ~changed'
       OBVIOUS
  <2>1. file \in File /\ HasValues(file, saved) /\ on' = saved
        BY StartReadsBack
  <2>2. prog = "none" /\ file # NoFile /\ Read
        BY DEF Start
  <2>3. marked = {}
        BY <2>2 DEF IInv, NothingHeld
  <2>4. /\ marked' = ChoiceWritten(saved)
        /\ changed' <=> Unsaved(file, saved, marked')
        BY <2>1, <2>2, <2>3, ReadHolds
  <2>5. Written(saved) \cup marked' = Written(saved)
        BY <2>4 DEF Written
  <2>6. ASSUME NEW s \in Sym
        PROVE  file[s] = (IF s \in Written(saved) THEN OnOff(s \in saved)
                          ELSE "absent")
    <3>1. CASE s \in Written(saved)
          BY <2>1, <3>1 DEF HasValues
    <3>2. CASE s \notin Written(saved)
          BY <2>1, <3>2 DEF HasValues, Clean
    <3>. QED  BY <3>1, <3>2
  <2>. QED  BY <2>4, <2>5, <2>6 DEF Unsaved
<1>. QED  BY <1>1, Invariant, PTL DEF Spec, QuietRead

(* After any program wrote .config, conf -o has no question: everything    *)
(* that can be set has a line.                                             *)
THEOREM AsksNothing == Spec => NothingAsked
<1>1. IInv /\ [Next]_vars =>
          [Start("ask") /\ saved # Foreign => Pending(on)' = {}]_vars
  <2>. SUFFICES ASSUME IInv, Start("ask"), saved # Foreign
                PROVE  Pending(on)' = {}
       OBVIOUS
  <2>1. HasValues(file, saved) /\ on' = saved /\ file \in File
        BY StartReadsBack
  <2>2. Read
        BY DEF Start
  <2>3. PICK w \in ReadSettings(file), uns \in BOOLEAN :
            /\ user' = ReadUser(w, on', uns)
            /\ has' = ReadHas(file, on', uns)
    <3>1. \A f, v, mark : Unsaved(f, v, mark) \in BOOLEAN
          BY DEF Unsaved
    <3>. QED  BY <2>2, <3>1 DEF Read
  <2>4. /\ w \in User
        /\ \A s \in Plain : w.def[s] = (IF file[s] = "absent" THEN "new" ELSE file[s])
        BY <2>1, SettingsRead
  <2>5. ASSUME NEW s \in Plain, Visible(s, on')
        PROVE  user'.def[s] # "new"
    <3>1. user'.def[s] = w.def[s]
          BY <2>3, <2>4, <2>5 DEF ReadUser, User
    <3>2. file[s] = OnOff(s \in saved)
          BY <2>1, <2>5 DEF HasValues, Written, Sym
    <3>. QED  BY <2>4, <3>1, <3>2 DEF OnOff
  <2>6. ASSUME NEW c \in Choice, Visible(c, on'), NEW m \in In(c)
        PROVE  file[m] # "absent"
    <3>1. m \in Written(saved) /\ m \in Sym
          BY <2>1, <2>6, OfChoice DEF Written, ChoiceWritten, Sym
    <3>2. file[m] = OnOff(m \in saved)
          BY <2>1, <3>1 DEF HasValues
    <3>. QED  BY <3>2 DEF OnOff
  <2>7. \A c \in Choice : c \in on' => Visible(c, on')
    <3>1. PICK u \in User : Consistent(saved, u)
          BY DEF IInv, SavedGiven
    <3>. QED  BY <2>1, <3>1 DEF Consistent, ChoiceOn
  <2>8. ASSUME NEW m \in Member, Visible(m, on')
        PROVE  m \in has'
    <3>1. PICK c \in Choice : m \in In(c)
          BY DEF Member
    <3>2. c \in on'
          BY <2>8, <3>1, OfChoice DEF Visible
    <3>. QED  BY <2>3, <2>6, <2>7, <3>1, <3>2 DEF ReadHas
  <2>9. ASSUME NEW c \in Choice, c \in on'
        PROVE  c \in has'
        BY <2>3, <2>6, <2>7, <2>9 DEF ReadHas
  <2>10. \A s \in Sym : s \in Plain \/ s \in Member
        BY DEF Sym
  <2>11. \A m \in Member : m \notin Plain
        BY OfChoice DEF Member
  <2>12. \A c \in Choice : c \notin Plain
        BY ChoiceAssumption DEF Sym
  <2>. QED  BY <2>5, <2>8, <2>9, <2>10, <2>11, <2>12 DEF Pending, HasValue, Changeable
<1>. QED  BY <1>1, Invariant, PTL DEF Spec, NothingAsked

(* While no program runs, none sets anything. *)
LEMMA SetByProgram ==
    ASSUME IInv, [Next]_vars, prog' = prog, user' # user
    PROVE  prog # "none"
<1>. SUFFICES ASSUME prog = "none"
              PROVE  FALSE
     OBVIOUS
<1>1. CASE \E p \in {"ask", "edit"} : Start(p) \/ StartNew(p)
      BY <1>1 DEF Start, StartNew
<1>2. CASE Defconfig \/ \E val \in {"n", "y"} : AllNew(val)
      BY <1>2 DEF Defconfig, AllNew
<1>3. CASE AskStep \/ EditStep \/ Abort
      BY <1>3 DEF AskStep, EditStep, Abort, Answer, AnswerChoice, Walk, Finish,
                  Toggle, PickMember, TouchChoice, Save, Load, Leave
<1>4. CASE UNCHANGED vars
      BY <1>4 DEF vars
<1>. QED  BY <1>1, <1>2, <1>3, <1>4 DEF Next

LEMMA SetPlainTakes ==
    ASSUME IInv, [Next]_vars, NEW s \in Plain, NEW val \in {"n", "y"},
           SetPlain(s, val)
    PROVE  OnOff(s \in on') = val
<1>1. /\ prog' = prog
      /\ user' = [user EXCEPT !.def[s] = val]
      /\ Recalculate(val # OnOff(s \in on))
      /\ val = OnOff(s \in on) \/ Changeable(s, on)
      BY DEF SetPlain
<1>2. CASE val = OnOff(s \in on)
  <2>1. on' = on
        BY <1>1, <1>2 DEF Recalculate
  <2>. QED  BY <1>2, <2>1
<1>3. CASE val # OnOff(s \in on)
  <2>1. /\ user \in User /\ user' \in User
        /\ user'.val = user.val
        /\ user'.def = [user.def EXCEPT ![s] = val]
        BY <1>1 DEF IInv, TypeOK, User, Setting
  <2>2. user'.def[s] = val /\ \A r \in Plain : r # s => user'.def[r] = user.def[r]
        BY <2>1 DEF User
  <2>3. prog # "none"
    <3>1. CASE user' = user
      <4>1. user # NoUser
            BY <2>2, <3>1 DEF NoUser
      <4>. QED  BY <4>1 DEF IInv, NothingHeld
    <3>2. CASE user' # user
          BY <1>1, <3>2, SetByProgram
    <3>. QED  BY <3>1, <3>2
  <2>4. Consistent(on, user)
        BY <2>3 DEF IInv, Fresh
  <2>5. on' = ValueOf(user')
        BY <1>1, <1>3 DEF Recalculate
  <2>6. Consistent(on', user')
        BY <2>1, <2>5, ValueOfSolves
  <2>7. s \in Groups /\ s \notin Choice
        BY OfPlain
  <2>8. \A h \in Groups : h # s => SameSet(h, user, user')
        BY <2>1, <2>2 DEF SameSet
  <2>9. Agree(on, on', Needs(s))
        BY <2>1, <2>4, <2>6, <2>7, <2>8, NeedsUnchanged
  <2>10. Visible(s, on') /\ ~Selected(s, on')
         BY <1>1, <1>3, <2>9, PlainLocal DEF Changeable
  <2>11. s \in on' <=> PlainOn(s, on', user')
         BY <2>6 DEF Consistent
  <2>. QED  BY <2>2, <2>10, <2>11 DEF PlainOn, OnOff
<1>. QED  BY <1>2, <1>3

LEMMA SetMemberTakes ==
    ASSUME IInv, [Next]_vars, NEW m \in Member, SetMember(m)
    PROVE  m \in on'
<1>1. PICK c \in Choice : m \in In(c)
      BY DEF Member
<1>2. ChoiceOf(m) = c
      BY <1>1, OfChoice
<1>3. /\ prog' = prog
      /\ Visible(m, on)
      /\ user' = [user EXCEPT !.val[c] = m]
      /\ Recalculate(m \notin on)
      BY <1>2 DEF SetMember
<1>4. CASE m \in on
      BY <1>3, <1>4 DEF Recalculate
<1>5. CASE m \notin on
  <2>1. /\ user \in User /\ user' \in User /\ user'.def = user.def
        /\ user'.val = [user.val EXCEPT ![c] = m]
        BY <1>1, <1>3, SetValType DEF IInv, TypeOK
  <2>2. user'.val[c] = m /\ \A d \in Choice : d # c => user'.val[d] = user.val[d]
        BY <2>1 DEF User, Vals
  <2>3. prog # "none"
    <3>1. CASE user' = user
      <4>1. m # None
            BY ChoiceAssumption DEF All, Sym
      <4>2. user # NoUser
            BY <2>2, <3>1, <4>1 DEF NoUser
      <4>. QED  BY <4>2 DEF IInv, NothingHeld
    <3>2. CASE user' # user
          BY <1>3, <3>2, SetByProgram
    <3>. QED  BY <3>1, <3>2
  <2>4. Consistent(on, user)
        BY <2>3 DEF IInv, Fresh
  <2>5. on' = ValueOf(user')
        BY <1>3, <1>5 DEF Recalculate
  <2>6. Consistent(on', user')
        BY <2>1, <2>5, ValueOfSolves
  <2>7. c \in Groups /\ c \notin Plain
        BY OfWithMembers
  <2>8. \A h \in Groups : h # c => SameSet(h, user, user')
        BY <2>1, <2>2 DEF SameSet
  <2>9. Agree(on, on', Needs(c))
        BY <2>1, <2>4, <2>6, <2>7, <2>8, NeedsUnchanged
  <2>10. Holds(Prompt[m], on) /\ c \in on
         BY <1>2, <1>3 DEF Visible
  <2>11. Visible(c, on)
         BY <2>4, <2>10 DEF Consistent, ChoiceOn
  <2>12. Holds(Prompt[m], on') /\ Visible(c, on')
         BY <1>1, <2>1, <2>9, <2>10, <2>11, ChoiceLocal
  <2>13. ChoiceOn(c, on', user')
         BY <1>1, <2>1, <2>12, PossibleIffOpen DEF ChoiceOn
  <2>14. Picked(c, on', user') = m
         BY <1>1, <2>1, <2>2, <2>12, OwnIsPicked
  <2>. QED  BY <1>1, <2>6, <2>13, <2>14 DEF Consistent, MemberOn
<1>. QED  BY <1>4, <1>5

(* What sym_set_tristate_value accepts is what the symbol then is: nothing *)
(* the new value changes elsewhere hides the symbol, selects it or makes   *)
(* its choice choose another member.                                       *)
THEOREM SettingsTakeEffect == Spec => Effective
<1>1. IInv /\ [Next]_vars =>
          [/\ \A s \in Plain, val \in {"n", "y"} :
                  SetPlain(s, val) => OnOff(s \in on') = val
           /\ \A m \in Member : SetMember(m) => m \in on']_vars
      BY SetPlainTakes, SetMemberTakes
<1>. QED  BY <1>1, Invariant, PTL DEF Spec, Effective

-----------------------------------------------------------------------------
(* Induction, and functions that are defined along a chain or by taking    *)
(* the elements of a set one by one.                                       *)

(* A set with 0 and with the successors of its elements has all numbers. *)
LEMMA SetInduction ==
    ASSUME NEW S, 0 \in S, \A n \in Nat : n \in S => n + 1 \in S
    PROVE  Nat \subseteq S
<1> DEFINE R == OpToRel(<, Nat)
           T == Nat \ S
<1>. SUFFICES ASSUME T # {}
              PROVE  FALSE
     OBVIOUS
<1>1. \E x \in T : \A y \in T : <<y, x>> \notin R
  <2>1. IsWellFoundedOn(R, Nat)
        BY NatLessThanWellFounded, Zenon
  <2>2. T \subseteq Nat
        OBVIOUS
  <2>. HIDE DEF R, T
  <2>. QED  BY <2>1, <2>2, WFMin
<1>2. PICK x \in T : \A y \in T : <<y, x>> \notin R
      BY <1>1, Zenon
<1>3. \A y \in T : y < x => <<y, x>> \in R
      BY DEF OpToRel
<1>. HIDE DEF R
<1>4. x # 0 /\ x - 1 \in Nat /\ x - 1 < x /\ (x - 1) + 1 = x
      OBVIOUS
<1>5. x - 1 \in S
      BY <1>2, <1>3, <1>4
<1>. QED  BY <1>4, <1>5

(* Each F[i] takes X to X. *)
Rounds(F, I, X) == \A i \in I, x \in X : F[i][x] \in X

(* f[i] is what is left of b after i of them. *)
Chained(f, n, b, F) == f[0] = b /\ \A i \in 1..n : f[i] = F[i][f[i - 1]]

LEMMA Chain ==
    ASSUME NEW n \in Nat, NEW X, NEW b \in X, NEW F, Rounds(F, 1..n, X)
    PROVE  \E f \in [0..n -> X] : Chained(f, n, b, F)
<1>. USE DEF Rounds
<1> DEFINE Is(f, m) == f[0] = b /\ \A i \in 1..m : f[i] = F[i][f[i - 1]]
           Good == {m \in Nat : m <= n => \E f \in [0..m -> X] : Is(f, m)}
<1>1. 0 \in Good
  <2> DEFINE f == [i \in 0..0 |-> b]
  <2>1. f \in [0..0 -> X] /\ Is(f, 0)
        OBVIOUS
  <2>. HIDE DEF f, Is
  <2>. QED  BY <2>1
<1>2. ASSUME NEW m \in Nat, m \in Good
      PROVE  m + 1 \in Good
  <2>. SUFFICES ASSUME m + 1 <= n
                PROVE  \E f \in [0..(m + 1) -> X] : Is(f, m + 1)
       OBVIOUS
  <2>1. PICK f \in [0..m -> X] : Is(f, m)
        BY <1>2
  <2>2. m + 1 \in 1..n /\ F[m + 1][f[m]] \in X
        OBVIOUS
  <2> DEFINE g == [i \in 0..(m + 1) |-> IF i = m + 1 THEN F[m + 1][f[m]] ELSE f[i]]
  <2>3. g \in [0..(m + 1) -> X] /\ g[m + 1] = F[m + 1][f[m]]
        BY <2>2
  <2>4. \A i \in 0..m : g[i] = f[i]
        OBVIOUS
  <2>5. \A i \in 1..m : i \in 0..m /\ i - 1 \in 0..m
        OBVIOUS
  <2>. HIDE DEF g
  <2>6. g[0] = b
        BY <2>1, <2>4
  <2>7. ASSUME NEW i \in 1..(m + 1)
        PROVE  g[i] = F[i][g[i - 1]]
    <3>1. CASE i = m + 1
      <4>1. i - 1 = m /\ m \in 0..m
            BY <3>1
      <4>2. g[i - 1] = f[m]
            BY <4>1, <2>4
      <4>. QED  BY <3>1, <4>2, <2>3
    <3>2. CASE i # m + 1
      <4>1. i \in 1..m
            BY <3>2
      <4>2. f[i] = F[i][f[i - 1]]
            BY <4>1, <2>1
      <4>. QED  BY <4>1, <4>2, <2>4, <2>5
    <3>. QED  BY <3>1, <3>2
  <2>. QED  BY <2>3, <2>6, <2>7
<1>3. n \in Good
  <2>. HIDE DEF Good
  <2>. QED  BY <1>1, <1>2, SetInduction
<1>. QED  BY <1>3 DEF Chained

(* What is true of no elements, and of a set whenever it is of the set     *)
(* without the element that is taken next, is true of all of them.         *)
LEMMA SubsetInduction ==
    ASSUME NEW S, IsFiniteSet(S), NEW P, {} \in P,
           \A T \in SUBSET S : T # {} /\ T \ {CHOOSE s \in T : TRUE} \in P => T \in P
    PROVE  SUBSET S \subseteq P
<1> DEFINE Good == {n \in Nat : \A T \in SUBSET S : Cardinality(T) = n => T \in P}
<1>1. \A T \in SUBSET S : IsFiniteSet(T) /\ Cardinality(T) \in Nat
      BY FS_Subset, FS_CardinalityType
<1>2. 0 \in Good
      BY <1>1, FS_EmptySet
<1>3. ASSUME NEW n \in Nat, n \in Good
      PROVE  n + 1 \in Good
  <2>. SUFFICES ASSUME NEW T \in SUBSET S, Cardinality(T) = n + 1
                PROVE  T \in P
       OBVIOUS
  <2>1. T # {}
        BY FS_EmptySet
  <2> DEFINE x == CHOOSE s \in T : TRUE
  <2>2. x \in T
        BY <2>1
  <2>. HIDE DEF x
  <2>3. Cardinality(T \ {x}) = n
    <3>1. IsFiniteSet(T)
          BY <1>1
    <3>2. Cardinality(T \ {x}) = Cardinality(T) - 1
          BY <2>2, <3>1, FS_RemoveElement
    <3>. QED  BY <3>2
  <2>4. T \ {x} \in P
        BY <1>3, <2>3
  <2>. QED  BY <2>1, <2>4 DEF x
<1>4. Nat \subseteq Good
  <2>. HIDE DEF Good
  <2>. QED  BY <1>2, <1>3, SetInduction
<1>. QED  BY <1>1, <1>4

(* r is what is left of b when the elements of T were taken one by one. *)
Taken(r, S, b, F) ==
    /\ r[{}] = b
    /\ \A T \in SUBSET S : T # {} =>
           r[T] = F[CHOOSE s \in T : TRUE][r[T \ {CHOOSE s \in T : TRUE}]]

LEMMA SetChain ==
    ASSUME NEW S, IsFiniteSet(S), NEW X, NEW b \in X, NEW F,
           Rounds(F, S, X)
    PROVE  \E r \in [SUBSET S -> X] : Taken(r, S, b, F)
<1> DEFINE n == Cardinality(S)
           N(T) == CHOOSE s \in T : TRUE
           R == [SUBSET S -> X]
           Step(r) == [T \in SUBSET S |-> IF T = {} THEN b ELSE F[N(T)][r[T \ {N(T)}]]]
           G == [i \in 1..n |-> [r \in R |-> Step(r)]]
           first == [T \in SUBSET S |-> b]
<1>1. n \in Nat
      BY FS_CardinalityType
<1>2. first \in R
      OBVIOUS
<1>3. \A T \in SUBSET S : T # {} => N(T) \in T /\ T \ {N(T)} \in SUBSET S
      OBVIOUS
<1>. HIDE DEF N
<1>4. \A r \in R : Step(r) \in R
      BY <1>3 DEF Rounds
<1>5. Rounds(G, 1..n, R)
      BY <1>4 DEF Rounds
<1>. HIDE DEF R, first, G, n
<1>6. PICK f \in [0..n -> R] : Chained(f, n, first, G)
      BY ONLY <1>1, <1>2, <1>5, Chain
<1>7. ASSUME NEW i \in 1..n
      PROVE  f[i] = Step(f[i - 1]) /\ f[i] \in R /\ f[i - 1] \in R
  <2>1. i \in 0..n /\ i - 1 \in 0..n
        BY <1>1
  <2>2. f[i] \in R /\ f[i - 1] \in R
        BY <2>1
  <2>. HIDE DEF Step
  <2>3. G[i][f[i - 1]] = Step(f[i - 1])
        BY <2>2 DEF G
  <2>. QED  BY <2>2, <2>3, <1>6 DEF Chained
<1>8. ASSUME NEW i \in 1..n
      PROVE  /\ f[i][{}] = b
             /\ \A T \in SUBSET S : T # {} => f[i][T] = F[N(T)][f[i - 1][T \ {N(T)}]]
  <2>. HIDE DEF R
  <2>1. {} \in SUBSET S
        OBVIOUS
  <2>2. f[i] = Step(f[i - 1])
        BY <1>7
  <2> DEFINE g == f[i - 1]
  <2>. HIDE DEF g
  <2>3. f[i] = Step(g)
        BY <2>2 DEF g
  <2>4. \A T \in SUBSET S : f[i][T] = IF T = {} THEN b ELSE F[N(T)][g[T \ {N(T)}]]
        BY ONLY <2>3
  <2>. QED  BY <2>1, <2>4 DEF g
<1> DEFINE Settled(m) == \A T \in SUBSET S, i, j \in m..n :
                             Cardinality(T) <= m => f[i][T] = f[j][T]
           Good == {m \in Nat : m <= n => Settled(m)}
<1>9. 0 \in Good
  <2>1. \A T \in SUBSET S : Cardinality(T) <= 0 => T = {}
        BY FS_Subset, FS_CardinalityType, FS_EmptySet
  <2>2. \A i \in 0..n : f[i][{}] = b
    <3>. TAKE i \in 0..n
    <3>1. CASE i = 0
          BY <3>1, <1>6 DEF first, Chained
    <3>2. CASE i # 0
      <4>1. i \in 1..n
            BY <3>2, <1>1
      <4>. QED  BY <4>1, <1>8
    <3>. QED  BY <3>1, <3>2
  <2>. QED  BY <2>1, <2>2
<1>10. ASSUME NEW m \in Nat, m \in Good
       PROVE  m + 1 \in Good
  <2>. SUFFICES ASSUME m + 1 <= n, NEW T \in SUBSET S, NEW i \in (m + 1)..n, NEW j \in (m + 1)..n,
                       Cardinality(T) <= m + 1
                PROVE  f[i][T] = f[j][T]
       OBVIOUS
  <2>1. m <= n /\ i - 1 \in m..n /\ j - 1 \in m..n /\ i \in 1..n /\ j \in 1..n
        BY <1>1
  <2>2. Settled(m)
        BY <1>10, <2>1
  <2>3. CASE T = {}
        BY <2>1, <2>3, <1>8
  <2>4. CASE T # {}
    <3>1. N(T) \in T /\ T \ {N(T)} \in SUBSET S
          BY <2>4, <1>3
    <3>2. IsFiniteSet(T) /\ Cardinality(T) \in Nat
          BY FS_Subset, FS_CardinalityType
    <3>3. Cardinality(T \ {N(T)}) = Cardinality(T) - 1
          BY <3>1, <3>2, FS_RemoveElement
    <3>4. Cardinality(T \ {N(T)}) <= m
          BY <3>2, <3>3
    <3>5. f[i - 1][T \ {N(T)}] = f[j - 1][T \ {N(T)}]
          BY <2>1, <2>2, <3>1, <3>4
    <3>. QED  BY <2>1, <2>4, <3>5, <1>8
  <2>. QED  BY <2>3, <2>4
<1>11. \A m \in Nat : m \in Good
  <2>. HIDE DEF Good
  <2>. QED  BY <1>9, <1>10, SetInduction
<1>12. CASE n = 0
  <2>1. S = {}
        BY <1>12, FS_EmptySet DEF n
  <2>. QED  BY <2>1, <1>2 DEF first, R, Taken
<1>13. CASE n # 0
  <2>1. n \in 1..n /\ n \in 0..n /\ n - 1 \in 0..n
        BY <1>1, <1>13
  <2>2. f[n][{}] = b /\ f[n] \in R
        BY <2>1, <1>8
  <2>3. ASSUME NEW T \in SUBSET S, T # {}
        PROVE  f[n][T] = F[N(T)][f[n][T \ {N(T)}]]
    <3>1. f[n][T] = F[N(T)][f[n - 1][T \ {N(T)}]]
          BY <2>1, <2>3, <1>8
    <3>2. N(T) \in T /\ T \ {N(T)} \in SUBSET S
          BY <2>3, <1>3
    <3>3. IsFiniteSet(T) /\ Cardinality(T) \in Nat /\ Cardinality(T) <= n
          BY FS_Subset, FS_CardinalityType DEF n
    <3>4. Cardinality(T \ {N(T)}) = Cardinality(T) - 1
          BY <3>2, <3>3, FS_RemoveElement
    <3>5. n - 1 \in Nat /\ n - 1 <= n /\ n \in (n - 1)..n /\ n - 1 \in (n - 1)..n
          BY <1>1, <1>13
    <3>6. Settled(n - 1)
          BY <1>11, <3>5
    <3>7. Cardinality(T \ {N(T)}) <= n - 1
          BY <3>3, <3>4, <1>1
    <3>8. f[n][T \ {N(T)}] = f[n - 1][T \ {N(T)}]
          BY <3>2, <3>5, <3>6, <3>7
    <3>. QED  BY <3>1, <3>8
  <2>. QED  BY <2>2, <2>3 DEF Taken, N, R
<1>. QED  BY <1>12, <1>13

-----------------------------------------------------------------------------
(* That the calculation ends: each symbol it asks for becomes valid.       *)

Upward(D) == D \subseteq Cache /\ \A k \in D, r \in Cache : k.valid \subseteq r.valid => r \in D

(* Asked for a symbol with a cache of D, calc makes it valid and keeps     *)
(* valid what was so.                                                      *)
Grows(calc, D) ==
    /\ Upward(D)
    /\ \A s \in All, k \in D :
           calc[s][k] \in Cache /\ k.valid \cup {s} \subseteq calc[s][k].valid

(* g and h are the same for the caches of D. *)
Alike(g, h, D) == Grows(g, D) /\ \A s \in All, k \in D : g[s][k] = h[s][k]

LEMMA GrowsInside ==
    ASSUME NEW g, NEW h, NEW D, Alike(g, h, D)
    PROVE  /\ Rounds(g, All, D) /\ Rounds(h, All, D)
           /\ Grows(h, D) /\ Alike(g, g, D) /\ Alike(h, h, D)
<1>1. \A s \in All, k \in D : g[s][k] \in D /\ h[s][k] \in D
      BY DEF Alike, Grows, Upward
<1>. QED  BY <1>1 DEF Rounds, Alike, Grows

LEMMA AskedInTurn ==
    ASSUME NEW calc, NEW D, Rounds(calc, All, D), NEW S \in SUBSET All, NEW k \in D
    PROVE  /\ IsFiniteSet(S)
           /\ \E r : Taken(r, S, k, calc) /\ AskAll(calc, S, k) = r[S]
<1> DEFINE N(T) == CHOOSE s \in T : TRUE
           Body(r) == [T \in SUBSET S |-> IF T = {} THEN k ELSE calc[N(T)][r[T \ {N(T)}]]]
           q == CHOOSE r : r = Body(r)
<1>1. IsFiniteSet(S)
      BY FiniteMenu, FS_Subset
<1>2. AskAll(calc, S, k) = q[S]
      BY DEF AskAll, FoldSet, MapThenFoldSet
<1>3. \A T \in SUBSET S : T # {} => N(T) \in T /\ T \ {N(T)} \in SUBSET S
      OBVIOUS
<1>4. Rounds(calc, S, D)
      BY DEF Rounds
<1>5. PICK r \in [SUBSET S -> D] : Taken(r, S, k, calc)
      BY <1>1, <1>4, SetChain
<1>6. r = Body(r)
  <2>1. r = [T \in SUBSET S |-> r[T]]
        OBVIOUS
  <2>2. \A T \in SUBSET S : r[T] = IF T = {} THEN k ELSE calc[N(T)][r[T \ {N(T)}]]
        BY <1>5 DEF Taken
  <2>. HIDE DEF N
  <2>. QED  BY <2>1, <2>2
<1>7. q = Body(q)
      BY <1>6
<1>. HIDE DEF q, N
<1>8. /\ q = [T \in SUBSET S |-> q[T]]
      /\ \A T \in SUBSET S : q[T] = IF T = {} THEN k ELSE calc[N(T)][q[T \ {N(T)}]]
      BY <1>7
<1>9. Taken(q, S, k, calc)
      BY <1>8 DEF Taken, N
<1>. QED  BY <1>1, <1>2, <1>9

LEMMA AskAlike ==
    ASSUME NEW g, NEW h, NEW D, Alike(g, h, D), NEW k \in D, NEW S \in SUBSET All
    PROVE  /\ AskAll(g, S, k) = AskAll(h, S, k)
           /\ AskAll(g, S, k) \in Cache
           /\ k.valid \cup S \subseteq AskAll(g, S, k).valid
<1>0. S \in SUBSET All /\ k \in D
      OBVIOUS
<1>1. Rounds(g, All, D) /\ Rounds(h, All, D)
      BY GrowsInside
<1>2. PICK r : Taken(r, S, k, g) /\ AskAll(g, S, k) = r[S]
      BY ONLY <1>0, <1>1, AskedInTurn
<1>3. PICK q : Taken(q, S, k, h) /\ AskAll(h, S, k) = q[S]
      BY ONLY <1>0, <1>1, AskedInTurn
<1>4. IsFiniteSet(S)
      BY <1>1, AskedInTurn
<1> DEFINE P == {T \in SUBSET S : r[T] = q[T] /\ r[T] \in D /\ k.valid \cup T \subseteq r[T].valid}
<1>5. {} \in P
      BY <1>2, <1>3 DEF Taken
<1>6. ASSUME NEW T \in SUBSET S, T # {}, T \ {CHOOSE s \in T : TRUE} \in P
      PROVE  T \in P
  <2> DEFINE x == CHOOSE s \in T : TRUE
             U == T \ {x}
  <2>1. x \in T /\ x \in All
        BY <1>6
  <2>2. r[T] = g[x][r[U]] /\ q[T] = h[x][q[U]]
        BY <1>2, <1>3, <1>6 DEF Taken
  <2>3. r[U] = q[U] /\ r[U] \in D /\ k.valid \cup U \subseteq r[U].valid
        BY <1>6
  <2>. HIDE DEF x
  <2>4. g[x][r[U]] = h[x][r[U]] /\ r[U] \in Cache
        BY <2>1, <2>3 DEF Alike, Grows, Upward
  <2>5. g[x][r[U]] \in Cache /\ r[U].valid \cup {x} \subseteq g[x][r[U]].valid
        BY <2>1, <2>3 DEF Alike, Grows
  <2>6. g[x][r[U]] \in D
        BY <2>3, <2>5 DEF Alike, Grows, Upward
  <2>. QED  BY <2>1, <2>2, <2>3, <2>4, <2>5, <2>6
<1>. HIDE DEF P
<1>7. S \in P
  <2>1. SUBSET S \subseteq P
        BY ONLY <1>4, <1>5, <1>6, SubsetInduction
  <2>2. S \in SUBSET S
        OBVIOUS
  <2>. QED  BY <2>1, <2>2
<1>8. r[S] = q[S] /\ r[S] \in D /\ k.valid \cup S \subseteq r[S].valid
      BY <1>7 DEF P
<1>9. D \subseteq Cache
      BY DEF Alike, Grows, Upward
<1>. QED  BY <1>2, <1>3, <1>8, <1>9

LEMMA MentionsKnown == \A X \in Condition : Mentions(X) \subseteq All
BY DEF Condition, Alternative, Mentions, All

LEMMA DefaultsKnown ==
    ASSUME NEW s \in Plain
    PROVE  /\ Len(Default[s]) \in Nat /\ DOMAIN Default[s] = 1..Len(Default[s])
           /\ \A i \in 1..Len(Default[s]) : /\ Mentions(Default[s][i].when) \subseteq All
                                            /\ Mentions(Default[s][i].value) \subseteq All
<1>1. Default[s] \in Seq([value : Condition, when : Condition])
      BY PropAssumption
<1>2. Len(Default[s]) \in Nat /\ DOMAIN Default[s] = 1..Len(Default[s])
      BY <1>1
<1>3. \A i \in 1..Len(Default[s]) : Default[s][i] \in [value : Condition, when : Condition]
      BY <1>1, <1>2, ElementOfSeq
<1>4. \A i \in 1..Len(Default[s]) : Default[s][i].when \in Condition /\ Default[s][i].value \in Condition
      BY <1>3
<1>. QED  BY <1>2, <1>4, MentionsKnown

LEMMA AskedForKnown ==
    ASSUME NEW s \in All
    PROVE  /\ Mentions(Prompt[s]) \subseteq All
           /\ s \in Plain => Mentions(Select[s]) \subseteq All
           /\ s \in Member => ChoiceOf(s) \in Choice /\ s \in In(ChoiceOf(s))
<1>1. Mentions(Prompt[s]) \subseteq All
      BY PropAssumption, MentionsKnown
<1>2. s \in Plain => Mentions(Select[s]) \subseteq All
      BY PropAssumption, MentionsKnown
<1>3. s \in Member => ChoiceOf(s) \in Choice /\ s \in In(ChoiceOf(s))
      BY OfChoice DEF Member
<1>. QED  BY <1>1, <1>2, <1>3

LEMMA VisibilityAlike ==
    ASSUME NEW g, NEW h, NEW D, Alike(g, h, D), NEW k \in D, NEW s \in All
    PROVE  /\ CalcVisibility(g, s, k) = CalcVisibility(h, s, k)
           /\ CalcVisibility(g, s, k) \in D
           /\ k.valid \subseteq CalcVisibility(g, s, k).valid
<1> DEFINE S == Mentions(Prompt[s])
                    \cup (IF s \in Plain THEN Mentions(Select[s]) ELSE {})
                    \cup (IF s \in Member THEN {ChoiceOf(s)} ELSE {})
<1>1. S \in SUBSET All
      BY AskedForKnown DEF All
<1>2. CalcVisibility(g, s, k) = AskAll(g, S, k) /\ CalcVisibility(h, s, k) = AskAll(h, S, k)
      BY DEF CalcVisibility
<1>. HIDE DEF S
<1>3. k.valid \cup S \subseteq AskAll(g, S, k).valid /\ AskAll(g, S, k) \in Cache
      BY <1>1, AskAlike
<1>4. AskAll(g, S, k) \in D
      BY <1>3 DEF Alike, Grows, Upward
<1>. QED  BY <1>1, <1>2, <1>3, <1>4, AskAlike

(* What the i-th default makes of the search for one. *)
TryDefault(calc, s, i, f) ==
    LET t == AskAll(calc, Mentions(Default[s][i].when), f.cache)
    IN  IF f.at # 0 THEN f
        ELSE [at |-> IF Holds(Default[s][i].when, t.on) THEN i ELSE 0, cache |-> t]

Searches(f, calc, s, k) ==
    /\ f[0] = [at |-> 0, cache |-> k]
    /\ \A i \in 1..Len(Default[s]) : f[i] = TryDefault(calc, s, i, f[i - 1])

LEMMA DefaultInTurn ==
    ASSUME NEW calc, NEW D, Alike(calc, calc, D), NEW s \in Plain, NEW k \in D
    PROVE  \E f : Searches(f, calc, s, k) /\ DefaultProp(calc, s, k) = f[Len(Default[s])]
<1> DEFINE n == Len(Default[s])
           X == [at : 0..n, cache : D]
           b == [at |-> 0, cache |-> k]
           F == [i \in 1..n |-> [f \in X |-> TryDefault(calc, s, i, f)]]
           Body(f) == [i \in 0..n |-> IF i = 0 THEN b ELSE TryDefault(calc, s, i, f[i - 1])]
           q == CHOOSE f : f = Body(f)
<1>1. n \in Nat
      BY DefaultsKnown
<1>2. DefaultProp(calc, s, k) = q[n]
      BY DEF DefaultProp, TryDefault
<1>3. ASSUME NEW i \in 1..n, NEW f \in X
      PROVE  TryDefault(calc, s, i, f) \in X
  <2> DEFINE t == AskAll(calc, Mentions(Default[s][i].when), f.cache)
  <2>1. f.cache \in D /\ Mentions(Default[s][i].when) \in SUBSET All
        BY DefaultsKnown
  <2>2. t \in D
    <3>1. t \in Cache /\ f.cache.valid \subseteq t.valid
          BY <2>1, AskAlike
    <3>. QED  BY <2>1, <3>1 DEF Alike, Grows, Upward
  <2>3. i \in 0..n /\ 0 \in 0..n
        BY <1>1
  <2>. HIDE DEF t, n
  <2>4. TryDefault(calc, s, i, f) =
            IF f.at # 0 THEN f
            ELSE [at |-> IF Holds(Default[s][i].when, t.on) THEN i ELSE 0, cache |-> t]
        BY DEF TryDefault, t
  <2>. QED  BY <2>2, <2>3, <2>4
<1>4. Rounds(F, 1..n, X)
      BY <1>3 DEF Rounds
<1>5. b \in X
      BY <1>1
<1>6. PICK f \in [0..n -> X] : Chained(f, n, b, F)
  <2>. HIDE DEF b, X, F, n
  <2>. QED  BY ONLY <1>1, <1>4, <1>5, Chain
<1>7. \A i \in 1..n : f[i] = TryDefault(calc, s, i, f[i - 1])
  <2>. TAKE i \in 1..n
  <2>. HIDE DEF X, n
  <2>1. i - 1 \in 0..n
        BY <1>1
  <2>2. f[i - 1] \in X /\ f[i] = F[i][f[i - 1]]
        BY <2>1, <1>6 DEF Chained
  <2>. QED  BY <2>2
<1>8. f = Body(f)
  <2>1. f[0] = b
        BY <1>6 DEF Chained
  <2>2. \A i \in 0..n : i # 0 => i \in 1..n
        BY <1>1
  <2>. HIDE DEF n, b, X
  <2>3. \A i \in 0..n : f[i] = IF i = 0 THEN b ELSE TryDefault(calc, s, i, f[i - 1])
        BY <2>1, <2>2, <1>7
  <2>4. f = [i \in 0..n |-> f[i]]
        OBVIOUS
  <2>. QED  BY <2>3, <2>4
<1>9. q = Body(q)
  <2>. HIDE DEF Body
  <2>. QED  BY <1>8
<1>10. Searches(q, calc, s, k)
  <2>1. 0 \in 0..n /\ \A i \in 1..n : i \in 0..n /\ i # 0
        BY <1>1
  <2>. HIDE DEF q
  <2>2. q[0] = b
        BY <2>1, <1>9
  <2>3. \A i \in 1..n : q[i] = TryDefault(calc, s, i, q[i - 1])
        BY <2>1, <1>9
  <2>. QED  BY <2>2, <2>3 DEF Searches
<1>. HIDE DEF q, n
<1>. QED  BY <1>2, <1>10 DEF n

LEMMA DefaultAlike ==
    ASSUME NEW g, NEW h, NEW D, Alike(g, h, D), NEW k \in D, NEW s \in Plain
    PROVE  /\ DefaultProp(g, s, k) = DefaultProp(h, s, k)
           /\ DefaultProp(g, s, k).at \in 0..Len(Default[s])
           /\ DefaultProp(g, s, k).cache \in D
           /\ k.valid \subseteq DefaultProp(g, s, k).cache.valid
<1> DEFINE n == Len(Default[s])
<1>1. Alike(g, g, D) /\ Alike(h, h, D)
      BY GrowsInside
<1>2. n \in Nat
      BY DefaultsKnown
<1>3. PICK f : Searches(f, g, s, k) /\ DefaultProp(g, s, k) = f[n]
      BY <1>1, DefaultInTurn
<1>4. PICK e : Searches(e, h, s, k) /\ DefaultProp(h, s, k) = e[n]
      BY <1>1, DefaultInTurn
<1> DEFINE Good == {i \in Nat : i <= n => /\ f[i] = e[i]
                                          /\ f[i].at \in 0..n
                                          /\ f[i].cache \in D
                                          /\ k.valid \subseteq f[i].cache.valid}
<1>5. 0 \in Good
      BY <1>2, <1>3, <1>4 DEF Searches
<1>6. ASSUME NEW i \in Nat, i \in Good
      PROVE  i + 1 \in Good
  <2>. SUFFICES ASSUME i + 1 <= n
                PROVE  /\ f[i + 1] = e[i + 1]
                       /\ f[i + 1].at \in 0..n
                       /\ f[i + 1].cache \in D
                       /\ k.valid \subseteq f[i + 1].cache.valid
       OBVIOUS
  <2> DEFINE j == i + 1
             S == Mentions(Default[s][j].when)
             t == AskAll(g, S, f[i].cache)
  <2>1. j \in 1..n /\ j - 1 = i /\ j \in 0..n /\ 0 \in 0..n /\ i <= n
        BY <1>2
  <2>2. f[i] = e[i] /\ f[i].at \in 0..n /\ f[i].cache \in D /\ k.valid \subseteq f[i].cache.valid
        BY <1>6, <2>1
  <2>3. S \in SUBSET All
        BY <2>1, DefaultsKnown
  <2>. HIDE DEF j, S
  <2>4. /\ t = AskAll(h, S, f[i].cache)
        /\ t \in Cache /\ f[i].cache.valid \cup S \subseteq t.valid
        BY <2>2, <2>3, AskAlike
  <2>5. t \in D
        BY <2>2, <2>4 DEF Alike, Grows, Upward
  <2>6. f[j] = TryDefault(g, s, j, f[i]) /\ e[j] = TryDefault(h, s, j, f[i])
    <3>1. f[j] = TryDefault(g, s, j, f[j - 1]) /\ e[j] = TryDefault(h, s, j, e[j - 1])
          BY <2>1, <1>3, <1>4 DEF Searches
    <3>. QED  BY <3>1, <2>1, <2>2
  <2>. HIDE DEF t
  <2>7. f[j] = IF f[i].at # 0 THEN f[i]
               ELSE [at |-> IF Holds(Default[s][j].when, t.on) THEN j ELSE 0, cache |-> t]
        BY <2>6 DEF TryDefault, t, S
  <2>8. e[j] = f[j]
        BY <2>4, <2>6, <2>7 DEF TryDefault, S
  <2>9. f[j].at \in 0..n /\ f[j].cache \in D /\ k.valid \subseteq f[j].cache.valid
    <3>. HIDE DEF n
    <3>1. CASE f[i].at # 0
          BY <3>1, <2>2, <2>7
    <3>2. CASE f[i].at = 0
          BY <3>2, <2>1, <2>2, <2>4, <2>5, <2>7
    <3>. QED  BY <3>1, <3>2
  <2>. QED  BY <2>8, <2>9 DEF j
<1>7. n \in Good
  <2>. HIDE DEF Good, n
  <2>. QED  BY <1>2, <1>5, <1>6, SetInduction
<1>. HIDE DEF n
<1>. QED  BY <1>2, <1>3, <1>4, <1>7 DEF n

LEMMA CandidatesKnown ==
    ASSUME NEW c \in Choice, NEW u \in User
    PROVE  /\ Len(Candidates(c, u)) \in Nat
           /\ DOMAIN Candidates(c, u) = 1..Len(Candidates(c, u))
           /\ \A i \in 1..Len(Candidates(c, u)) :
                 /\ Mentions(Candidates(c, u)[i].when) \subseteq All
                 /\ Candidates(c, u)[i].to \in In(c)
                 /\ Candidates(c, u)[i].to \in All
                 /\ Candidates(c, u)[i].to # None
<1>1. \A i \in DOMAIN Candidates(c, u) :
          /\ Candidates(c, u)[i].to \in In(c)
          /\ Candidates(c, u)[i].when \in Whens(c)
      BY CandidatesIn
<1>2. Len(Candidates(c, u)) \in Nat /\ DOMAIN Candidates(c, u) = 1..Len(Candidates(c, u))
      BY CandidatesIn
<1>3. \A m \in In(c) : m \in All /\ m # None
      BY OfChoice, ChoiceAssumption DEF All, Sym
<1>4. \A X \in Whens(c) : Mentions(X) \subseteq All
  <2>1. Mentions(Always) = {}
        BY DEF Mentions, Always
  <2>2. ASSUME NEW d \in Range(ChoiceDefault[c])
        PROVE  Mentions(d.when) \subseteq All
    <3>1. d.when \in {e.when : e \in Range(ChoiceDefault[c])}
          OBVIOUS
    <3>2. Mentions(d.when) \subseteq Needs(c)
          BY DEF Needs
    <3>3. c \in Groups
          BY OfWithMembers
    <3>. QED  BY <3>2, <3>3, NeedsKnown
  <2>. QED  BY <2>1, <2>2 DEF Whens
<1>. QED  BY <1>1, <1>2, <1>3, <1>4

(* What the i-th candidate makes of the search for a member. *)
TryCandidate(calc, c, i, f, u) ==
    LET n == Candidates(c, u)[i]
        t == AskAll(calc, Mentions(n.when), f.cache)
        w == CalcVisibility(calc, n.to, t)
    IN  IF f.to # None THEN f
        ELSE IF ~Holds(n.when, t.on) THEN [to |-> None, cache |-> t]
        ELSE [to |-> IF Visible(n.to, w.on) THEN n.to ELSE None, cache |-> w]

Chooses(f, calc, c, k, u) ==
    /\ f[0] = [to |-> None, cache |-> k]
    /\ \A i \in 1..Len(Candidates(c, u)) : f[i] = TryCandidate(calc, c, i, f[i - 1], u)

(* What the end of the search makes of the choice. *)
Chosen(c, f) ==
    [f.cache EXCEPT !.pick[c] = f.to, !.on = IF f.to = None THEN @ \ {c} ELSE @]

LEMMA ChoiceInTurn ==
    ASSUME NEW calc, NEW D, Alike(calc, calc, D), NEW c \in Choice, NEW k \in D, NEW u \in User
    PROVE  \E f : /\ Chooses(f, calc, c, k, u)
                  /\ CalcChoice(calc, c, k, u) = Chosen(c, f[Len(Candidates(c, u))])
<1> DEFINE n == Len(Candidates(c, u))
           X == [to : In(c) \cup {None}, cache : D]
           b == [to |-> None, cache |-> k]
           F == [i \in 1..n |-> [f \in X |-> TryCandidate(calc, c, i, f, u)]]
           Body(f) == [i \in 0..n |-> IF i = 0 THEN b ELSE TryCandidate(calc, c, i, f[i - 1], u)]
           q == CHOOSE f : f = Body(f)
<1>1. n \in Nat
      BY CandidatesKnown
<1>2. CalcChoice(calc, c, k, u) = Chosen(c, q[n])
      BY DEF CalcChoice, TryCandidate, Chosen
<1>3. ASSUME NEW i \in 1..n, NEW f \in X
      PROVE  TryCandidate(calc, c, i, f, u) \in X
  <2> DEFINE m == Candidates(c, u)[i]
             t == AskAll(calc, Mentions(m.when), f.cache)
             w == CalcVisibility(calc, m.to, t)
  <2>1. f.cache \in D /\ Mentions(m.when) \in SUBSET All /\ m.to \in All /\ m.to \in In(c)
        BY CandidatesKnown
  <2>2. t \in D
    <3>1. t \in Cache /\ f.cache.valid \subseteq t.valid
          BY <2>1, AskAlike
    <3>. QED  BY <2>1, <3>1 DEF Alike, Grows, Upward
  <2>. HIDE DEF t, m
  <2>3. w \in D
        BY <2>1, <2>2, VisibilityAlike
  <2>. HIDE DEF w, n
  <2>4. TryCandidate(calc, c, i, f, u) =
            IF f.to # None THEN f
            ELSE IF ~Holds(m.when, t.on) THEN [to |-> None, cache |-> t]
            ELSE [to |-> IF Visible(m.to, w.on) THEN m.to ELSE None, cache |-> w]
        BY DEF TryCandidate, t, m, w
  <2>. QED  BY <2>1, <2>2, <2>3, <2>4
<1>4. Rounds(F, 1..n, X)
      BY <1>3 DEF Rounds
<1>5. b \in X
      OBVIOUS
<1>6. PICK f \in [0..n -> X] : Chained(f, n, b, F)
  <2>. HIDE DEF b, X, F, n
  <2>. QED  BY ONLY <1>1, <1>4, <1>5, Chain
<1>7. \A i \in 1..n : f[i] = TryCandidate(calc, c, i, f[i - 1], u)
  <2>. TAKE i \in 1..n
  <2>. HIDE DEF X, n
  <2>1. i - 1 \in 0..n
        BY <1>1
  <2>2. f[i - 1] \in X /\ f[i] = F[i][f[i - 1]]
        BY <2>1, <1>6 DEF Chained
  <2>. QED  BY <2>2
<1>8. f = Body(f)
  <2>1. f[0] = b
        BY <1>6 DEF Chained
  <2>2. \A i \in 0..n : i # 0 => i \in 1..n
        BY <1>1
  <2>. HIDE DEF n, b, X
  <2>3. \A i \in 0..n : f[i] = IF i = 0 THEN b ELSE TryCandidate(calc, c, i, f[i - 1], u)
        BY <2>1, <2>2, <1>7
  <2>4. f = [i \in 0..n |-> f[i]]
        OBVIOUS
  <2>. QED  BY <2>3, <2>4
<1>9. q = Body(q)
  <2>. HIDE DEF Body
  <2>. QED  BY <1>8
<1>10. Chooses(q, calc, c, k, u)
  <2>1. 0 \in 0..n /\ \A i \in 1..n : i \in 0..n /\ i # 0
        BY <1>1
  <2>. HIDE DEF q
  <2>2. q[0] = b
        BY <2>1, <1>9
  <2>3. \A i \in 1..n : q[i] = TryCandidate(calc, c, i, q[i - 1], u)
        BY <2>1, <1>9
  <2>. QED  BY <2>2, <2>3 DEF Chooses
<1>. HIDE DEF q, n
<1>. QED  BY <1>2, <1>10 DEF n

(* What a calculation may do to a cache. *)
LEMMA CacheSteps ==
    ASSUME NEW k \in Cache
    PROVE  /\ \A s \in All : [k EXCEPT !.valid = @ \cup {s}] \in Cache
           /\ \A lit \in SUBSET All, write \in SUBSET Sym :
                  [k EXCEPT !.on = lit, !.write = write] \in Cache
           /\ \A lit \in SUBSET All : [k EXCEPT !.on = lit] \in Cache
           /\ \A c \in Choice, to \in Member \cup {None}, lit \in SUBSET All :
                  to \in In(c) \cup {None} => /\ [k EXCEPT !.pick[c] = to, !.on = lit] \in Cache
                                              /\ [k EXCEPT !.on = lit, !.pick[c] = to] \in Cache
<1>1. /\ k.on \in SUBSET All /\ k.pick \in Vals /\ k.valid \in SUBSET All /\ k.write \in SUBSET Sym
      /\ k = [on |-> k.on, pick |-> k.pick, valid |-> k.valid, write |-> k.write]
      BY DEF Cache
<1>2. ASSUME NEW c \in Choice, NEW to \in Member \cup {None}, to \in In(c) \cup {None}
      PROVE  [k.pick EXCEPT ![c] = to] \in Vals
  <2>1. k.pick \in [Choice -> Member \cup {None}] /\ \A d \in Choice : k.pick[d] \in In(d) \cup {None}
        BY <1>1 DEF Vals
  <2>2. [k.pick EXCEPT ![c] = to] \in [Choice -> Member \cup {None}]
        BY <2>1
  <2>3. \A d \in Choice : [k.pick EXCEPT ![c] = to][d] \in In(d) \cup {None}
        BY <2>1, <1>2
  <2>. QED  BY <2>2, <2>3 DEF Vals
<1>3. ASSUME NEW s \in All
      PROVE  [k EXCEPT !.valid = @ \cup {s}] \in Cache
  <2>1. k.valid \cup {s} \in SUBSET All
        BY <1>1
  <2>. QED  BY <2>1, <1>1 DEF Cache
<1>4. ASSUME NEW lit \in SUBSET All, NEW write \in SUBSET Sym
      PROVE  /\ [k EXCEPT !.on = lit, !.write = write] \in Cache
             /\ [k EXCEPT !.on = lit] \in Cache
      BY <1>1 DEF Cache
<1>5. ASSUME NEW c \in Choice, NEW to \in Member \cup {None}, NEW lit \in SUBSET All, to \in In(c) \cup {None}
      PROVE  /\ [k EXCEPT !.pick[c] = to, !.on = lit] \in Cache
             /\ [k EXCEPT !.on = lit, !.pick[c] = to] \in Cache
  <2> DEFINE p == [k.pick EXCEPT ![c] = to]
  <2>1. p \in Vals
        BY <1>2, <1>5
  <2>2. /\ [k EXCEPT !.pick[c] = to, !.on = lit] = [k EXCEPT !.pick = p, !.on = lit]
        /\ [k EXCEPT !.on = lit, !.pick[c] = to] = [k EXCEPT !.on = lit, !.pick = p]
        OBVIOUS
  <2>. HIDE DEF p
  <2>. QED  BY <2>1, <2>2, <1>1 DEF Cache
<1>. QED  BY <1>3, <1>4, <1>5

LEMMA ChoiceAlike ==
    ASSUME NEW g, NEW h, NEW D, Alike(g, h, D), NEW k \in D, NEW c \in Choice, NEW u \in User
    PROVE  /\ CalcChoice(g, c, k, u) = CalcChoice(h, c, k, u)
           /\ CalcChoice(g, c, k, u) \in Cache
           /\ k.valid \subseteq CalcChoice(g, c, k, u).valid
<1> DEFINE n == Len(Candidates(c, u))
<1>1. Alike(g, g, D) /\ Alike(h, h, D)
      BY GrowsInside
<1>2. n \in Nat
      BY CandidatesKnown
<1>3. PICK f : Chooses(f, g, c, k, u) /\ CalcChoice(g, c, k, u) = Chosen(c, f[n])
      BY <1>1, ChoiceInTurn
<1>4. PICK e : Chooses(e, h, c, k, u) /\ CalcChoice(h, c, k, u) = Chosen(c, e[n])
      BY <1>1, ChoiceInTurn
<1> DEFINE Good == {i \in Nat : i <= n => /\ f[i] = e[i]
                                          /\ f[i].to \in In(c) \cup {None}
                                          /\ f[i].cache \in D
                                          /\ k.valid \subseteq f[i].cache.valid}
<1>5. 0 \in Good
      BY <1>2, <1>3, <1>4 DEF Chooses
<1>6. ASSUME NEW i \in Nat, i \in Good
      PROVE  i + 1 \in Good
  <2>. SUFFICES ASSUME i + 1 <= n
                PROVE  /\ f[i + 1] = e[i + 1]
                       /\ f[i + 1].to \in In(c) \cup {None}
                       /\ f[i + 1].cache \in D
                       /\ k.valid \subseteq f[i + 1].cache.valid
       OBVIOUS
  <2> DEFINE j == i + 1
             m == Candidates(c, u)[j]
             S == Mentions(m.when)
             t == AskAll(g, S, f[i].cache)
             w == CalcVisibility(g, m.to, t)
  <2>1. j \in 1..n /\ j - 1 = i /\ i <= n
        BY <1>2
  <2>2. f[i] = e[i] /\ f[i].to \in In(c) \cup {None} /\ f[i].cache \in D
        /\ k.valid \subseteq f[i].cache.valid
        BY <1>6, <2>1
  <2>3. S \in SUBSET All /\ m.to \in All /\ m.to \in In(c)
        BY <2>1, CandidatesKnown
  <2>4. /\ f[j] = TryCandidate(g, c, j, f[i], u)
        /\ e[j] = TryCandidate(h, c, j, f[i], u)
    <3>1. f[j] = TryCandidate(g, c, j, f[j - 1], u) /\ e[j] = TryCandidate(h, c, j, e[j - 1], u)
          BY <2>1, <1>3, <1>4 DEF Chooses
    <3>. QED  BY <3>1, <2>1, <2>2
  <2>. HIDE DEF j, m, S
  <2>5. /\ t = AskAll(h, S, f[i].cache)
        /\ t \in Cache /\ f[i].cache.valid \cup S \subseteq t.valid
        BY <2>2, <2>3, AskAlike
  <2>6. t \in D
        BY <2>2, <2>5 DEF Alike, Grows, Upward
  <2>. HIDE DEF t
  <2>7. /\ w = CalcVisibility(h, m.to, t)
        /\ w \in D /\ t.valid \subseteq w.valid
        BY <2>3, <2>6, VisibilityAlike
  <2>. HIDE DEF w
  <2>8. f[j] = IF f[i].to # None THEN f[i]
               ELSE IF ~Holds(m.when, t.on) THEN [to |-> None, cache |-> t]
               ELSE [to |-> IF Visible(m.to, w.on) THEN m.to ELSE None, cache |-> w]
        BY <2>4 DEF TryCandidate, t, S, m, w
  <2>9. e[j] = f[j]
        BY <2>4, <2>5, <2>7, <2>8 DEF TryCandidate, S, m
  <2>10. /\ f[j].to \in In(c) \cup {None} /\ f[j].cache \in D
         /\ k.valid \subseteq f[j].cache.valid
    <3>1. CASE f[i].to # None
          BY <3>1, <2>2, <2>8
    <3>2. CASE f[i].to = None /\ ~Holds(m.when, t.on)
          BY <3>2, <2>2, <2>5, <2>6, <2>8
    <3>3. CASE f[i].to = None /\ Holds(m.when, t.on)
          BY <3>3, <2>2, <2>3, <2>5, <2>7, <2>8
    <3>. QED  BY <3>1, <3>2, <3>3
  <2>. QED  BY <2>9, <2>10 DEF j
<1>7. n \in Good
  <2>. HIDE DEF Good, n
  <2>. QED  BY <1>2, <1>5, <1>6, SetInduction
<1>. HIDE DEF n
<1> DEFINE x == f[n].cache
           to == f[n].to
           lit == IF to = None THEN x.on \ {c} ELSE x.on
<1>8. /\ f[n] = e[n] /\ x \in D /\ x \in Cache /\ k.valid \subseteq x.valid
      /\ to \in In(c) \cup {None} /\ to \in Member \cup {None}
  <2>1. f[n] = e[n] /\ x \in D /\ k.valid \subseteq x.valid /\ to \in In(c) \cup {None}
        BY <1>2, <1>7
  <2>. QED  BY <2>1, OfChoice DEF Alike, Grows, Upward
<1>9. lit \in SUBSET All /\ c \in All
      BY <1>8 DEF Cache, All
<1>10. CalcChoice(g, c, k, u) = [x EXCEPT !.pick[c] = to, !.on = lit]
       BY <1>3 DEF Chosen
<1>. HIDE DEF x, to, lit
<1>11. [x EXCEPT !.pick[c] = to, !.on = lit] \in Cache
       BY <1>8, <1>9, CacheSteps
<1>12. [x EXCEPT !.pick[c] = to, !.on = lit].valid = x.valid
       BY <1>8 DEF Cache
<1>. QED  BY <1>3, <1>4, <1>8, <1>10, <1>11, <1>12

(* What the end of the calculation of a plain symbol makes of it: t is the *)
(* cache when its visibility is known, d the default that was found, and e *)
(* the cache when that is known.                                           *)
Settled(s, t, d, e, u) ==
    LET clear == [t EXCEPT !.on = @ \ {s}] IN
    IF Visible(s, t.on) /\ u.def[s] # "new"
    THEN [clear EXCEPT !.on = Put(@, s, u.def[s] = "y" \/ Selected(s, t.on)),
                       !.write = @ \cup {s}]
    ELSE [e EXCEPT
            !.on = Put(@, s, Selected(s, t.on) \/ (d.at # 0
                                /\ Holds(Default[s][d.at].value, e.on))),
            !.write = Put(@, s, Visible(s, t.on) \/ Selected(s, t.on) \/ d.at # 0)]

(* The cache when the default d of s is calculated. *)
Valued(calc, s, d) ==
    IF d.at = 0 THEN d.cache ELSE AskAll(calc, Mentions(Default[s][d.at].value), d.cache)

(* The default that is found when the visibility is known. *)
Found(calc, s, t) == DefaultProp(calc, s, [t EXCEPT !.on = @ \ {s}])

LEMMA PlainSettled ==
    ASSUME NEW calc, NEW s, NEW k, NEW u, NEW t, t = CalcVisibility(calc, s, k)
    PROVE  CalcPlain(calc, s, k, u) =
               Settled(s, t, Found(calc, s, t), Valued(calc, s, Found(calc, s, t)), u)
BY DEF CalcPlain, Settled, Valued, Found

LEMMA PlainAlike ==
    ASSUME NEW g, NEW h, NEW D, Alike(g, h, D), NEW k \in D, NEW s \in Plain, NEW u \in User
    PROVE  /\ CalcPlain(g, s, k, u) = CalcPlain(h, s, k, u)
           /\ CalcPlain(g, s, k, u) \in Cache
           /\ k.valid \subseteq CalcPlain(g, s, k, u).valid
<1> DEFINE t == CalcVisibility(g, s, k)
           visible == Visible(s, t.on)
           selected == Selected(s, t.on)
           clear == [t EXCEPT !.on = @ \ {s}]
           d == DefaultProp(g, s, clear)
           S == Mentions(Default[s][d.at].value)
           a == AskAll(g, S, d.cache)
           e == IF d.at = 0 THEN d.cache ELSE a
           set == visible /\ u.def[s] # "new"
           on1 == Put(clear.on, s, u.def[s] = "y" \/ selected)
           w1 == clear.write \cup {s}
           on2 == Put(e.on, s, selected \/ (d.at # 0 /\ Holds(Default[s][d.at].value, e.on)))
           w2 == Put(e.write, s, visible \/ selected \/ d.at # 0)
<1>1. s \in All /\ s \in Sym
      BY DEF All, Sym
<1>2. t = CalcVisibility(h, s, k) /\ t \in D /\ k.valid \subseteq t.valid
      BY <1>1, VisibilityAlike
<1>3. t \in Cache
      BY <1>2 DEF Alike, Grows, Upward
<1>. HIDE DEF t
<1>4. clear \in Cache /\ clear.valid = t.valid
  <2>1. t.on \ {s} \in SUBSET All
        BY <1>3 DEF Cache
  <2> DEFINE o == t.on \ {s}
  <2>. HIDE DEF o
  <2>2. [t EXCEPT !.on = o] \in Cache /\ [t EXCEPT !.on = o].valid = t.valid
    <3>1. o \in SUBSET All
          BY <2>1 DEF o
    <3>2. [t EXCEPT !.on = o] \in Cache
          BY <3>1, <1>3, CacheSteps
    <3>3. [t EXCEPT !.on = o].valid = t.valid
          BY <1>3 DEF Cache
    <3>. QED  BY <3>2, <3>3
  <2>. QED  BY <2>2 DEF o
<1>5. clear \in D
      BY <1>2, <1>4 DEF Alike, Grows, Upward
<1>. HIDE DEF clear
<1>6. /\ d = DefaultProp(h, s, clear) /\ d.at \in 0..Len(Default[s])
      /\ d.cache \in D /\ clear.valid \subseteq d.cache.valid
      BY <1>5, DefaultAlike
<1>. HIDE DEF d
<1>7. d.cache \in Cache
      BY <1>6 DEF Alike, Grows, Upward
<1>8. d.at # 0 => S \in SUBSET All
  <2>. HAVE d.at # 0
  <2>1. d.at \in 1..Len(Default[s])
        BY <1>6, DefaultsKnown
  <2>. QED  BY <2>1, DefaultsKnown
<1>9. d.at # 0 => a = AskAll(h, S, d.cache) /\ a \in Cache /\ d.cache.valid \subseteq a.valid
  <2>. HIDE DEF S
  <2>. QED  BY <1>6, <1>8, AskAlike
<1>. HIDE DEF a
<1>10. e \in Cache /\ t.valid \subseteq e.valid
       BY <1>4, <1>6, <1>7, <1>9
<1>11. e = Valued(g, s, d) /\ e = Valued(h, s, d)
       BY <1>9 DEF Valued, a
<1>12. CalcPlain(g, s, k, u) = Settled(s, t, d, e, u) /\ CalcPlain(h, s, k, u) = Settled(s, t, d, e, u)
  <2>1. t = CalcVisibility(g, s, k) /\ t = CalcVisibility(h, s, k)
        BY <1>2 DEF t
  <2>2. d = Found(g, s, t) /\ d = Found(h, s, t)
        BY <1>6 DEF clear, d, Found
  <2>3. /\ CalcPlain(g, s, k, u) = Settled(s, t, Found(g, s, t), Valued(g, s, Found(g, s, t)), u)
        /\ CalcPlain(h, s, k, u) = Settled(s, t, Found(h, s, t), Valued(h, s, Found(h, s, t)), u)
        BY <2>1, PlainSettled
  <2>. HIDE DEF e
  <2>. QED  BY <2>2, <2>3, <1>11
<1>. HIDE DEF e
<1>13. on1 \in SUBSET All /\ w1 \in SUBSET Sym /\ on2 \in SUBSET All /\ w2 \in SUBSET Sym
  <2>1. clear.on \in SUBSET All /\ clear.write \in SUBSET Sym /\ e.on \in SUBSET All /\ e.write \in SUBSET Sym
        BY <1>4, <1>10 DEF Cache
  <2>. QED  BY <2>1, <1>1 DEF Put
<1>. HIDE DEF on1, on2, w1, w2, set
<1>14. /\ [clear EXCEPT !.on = on1, !.write = w1] \in Cache
       /\ [e EXCEPT !.on = on2, !.write = w2] \in Cache
       BY <1>4, <1>10, <1>13, CacheSteps
<1>15. /\ [clear EXCEPT !.on = on1, !.write = w1].valid = clear.valid
       /\ [e EXCEPT !.on = on2, !.write = w2].valid = e.valid
       BY <1>4, <1>10 DEF Cache
<1>16. Settled(s, t, d, e, u) = IF set THEN [clear EXCEPT !.on = on1, !.write = w1]
                                ELSE [e EXCEPT !.on = on2, !.write = w2]
       BY DEF Settled, set, clear, on1, on2, w1, w2
<1>. QED  BY <1>2, <1>4, <1>10, <1>12, <1>14, <1>15, <1>16

LEMMA CalculateAlike ==
    ASSUME NEW g, NEW h, NEW D, Alike(g, h, D), NEW k \in D, NEW s \in All, NEW u \in User
    PROVE  /\ Calculate(g, s, k, u) = Calculate(h, s, k, u)
           /\ Calculate(g, s, k, u) \in Cache
           /\ k.valid \subseteq Calculate(g, s, k, u).valid
<1> DEFINE t == CalcVisibility(g, s, k)
<1>1. t = CalcVisibility(h, s, k) /\ t \in D /\ t \in Cache /\ k.valid \subseteq t.valid
  <2>1. t = CalcVisibility(h, s, k) /\ t \in D /\ k.valid \subseteq t.valid
        BY VisibilityAlike
  <2>. QED  BY <2>1 DEF Alike, Grows, Upward
<1>2. t.on \in SUBSET All /\ t.write \in SUBSET Sym
      BY <1>1 DEF Cache
<1>. HIDE DEF t
<1>3. CASE s \in Plain
  <2>1. Calculate(g, s, k, u) = CalcPlain(g, s, k, u) /\ Calculate(h, s, k, u) = CalcPlain(h, s, k, u)
        BY <1>3, OfPlain, ChoiceAssumption DEF Calculate, Sym
  <2>. QED  BY <2>1, <1>3, PlainAlike
<1>4. CASE s \in Choice
  <2> DEFINE on1 == t.on \cup {s}
             w1 == t.write \cup In(s)
             x == [t EXCEPT !.on = on1, !.write = w1]
             on2 == t.on \ {s}
             y == [t EXCEPT !.on = on2, !.pick[s] = None]
  <2>1. s \notin Plain /\ s \notin Member
        BY <1>4, ChoiceAssumption DEF Sym
  <2>2. Calculate(g, s, k, u) = IF Visible(s, t.on) THEN CalcChoice(g, s, x, u) ELSE y
        BY <1>4, <2>1 DEF Calculate, t
  <2>3. Calculate(h, s, k, u) = IF Visible(s, t.on) THEN CalcChoice(h, s, x, u) ELSE y
        BY <1>1, <1>4, <2>1 DEF Calculate
  <2>4. on1 \in SUBSET All /\ w1 \in SUBSET Sym /\ on2 \in SUBSET All
        BY <1>2, <1>4, OfChoice DEF Sym, Member
  <2>. HIDE DEF on1, on2, w1
  <2>5. x \in Cache /\ x.valid = t.valid
        BY <1>1, <2>4, CacheSteps DEF Cache
  <2>6. y \in Cache /\ y.valid = t.valid
    <3>1. None \in Member \cup {None} /\ None \in In(s) \cup {None}
          OBVIOUS
    <3>2. y \in Cache
          BY <1>1, <1>4, <2>4, <3>1, CacheSteps
    <3>. QED  BY <3>2, <1>1 DEF Cache
  <2>. HIDE DEF x, y
  <2>7. x \in D
        BY <1>1, <2>5 DEF Alike, Grows, Upward
  <2>8. /\ CalcChoice(g, s, x, u) = CalcChoice(h, s, x, u)
        /\ CalcChoice(g, s, x, u) \in Cache
        /\ x.valid \subseteq CalcChoice(g, s, x, u).valid
        BY <1>4, <2>7, ChoiceAlike
  <2>. QED  BY <1>1, <2>2, <2>3, <2>5, <2>6, <2>8
<1>5. CASE s \in Member
  <2> DEFINE on1 == Put(t.on, s, Visible(s, t.on) /\ t.pick[ChoiceOf(s)] = s)
             x == [t EXCEPT !.on = on1]
  <2>1. s \notin Plain /\ s \notin Choice
        BY <1>5, ChoiceAssumption DEF Sym
  <2>2. Calculate(g, s, k, u) = x
        BY <1>5, <2>1 DEF Calculate, t
  <2>3. Calculate(h, s, k, u) = x
        BY <1>1, <1>5, <2>1 DEF Calculate
  <2>4. on1 \in SUBSET All
        BY <1>2 DEF Put
  <2>. HIDE DEF on1
  <2>5. x \in Cache /\ x.valid = t.valid
        BY <1>1, <2>4, CacheSteps DEF Cache
  <2>. QED  BY <1>1, <2>2, <2>3, <2>5
<1>. QED  BY <1>3, <1>4, <1>5 DEF All, Sym

(* Caches in which at most n symbols are not valid. *)
Near(n) == {k \in Cache : Cardinality(All \ k.valid) <= n}

LEMMA NearFacts ==
    /\ Cardinality(All) \in Nat
    /\ Near(Cardinality(All)) = Cache
    /\ \A k \in Cache : Cardinality(All \ k.valid) \in Nat
    /\ \A n \in Nat : Upward(Near(n))
    /\ \A k \in Near(0), s \in All : s \in k.valid
    /\ \A n \in Nat : \A k \in Near(n + 1), s \in All :
          s \notin k.valid => [k EXCEPT !.valid = @ \cup {s}] \in Near(n)
<1>1. IsFiniteSet(All) /\ Cardinality(All) \in Nat
      BY FiniteMenu, FS_CardinalityType
<1>2. \A T \in SUBSET All : /\ IsFiniteSet(T) /\ Cardinality(T) \in Nat
                            /\ Cardinality(T) <= Cardinality(All)
      BY <1>1, FS_Subset, FS_CardinalityType
<1>3. ASSUME NEW k \in Cache
      PROVE  /\ k.valid \in SUBSET All /\ All \ k.valid \in SUBSET All
             /\ Cardinality(All \ k.valid) \in Nat
             /\ Cardinality(All \ k.valid) <= Cardinality(All)
             /\ IsFiniteSet(All \ k.valid)
  <2>1. k.valid \in SUBSET All
        BY DEF Cache
  <2>2. All \ k.valid \in SUBSET All
        OBVIOUS
  <2>. QED  BY <2>1, <2>2, <1>2
<1>4. Near(Cardinality(All)) = Cache
      BY <1>3 DEF Near
<1>5. ASSUME NEW n \in Nat, NEW k \in Near(n), NEW r \in Cache, k.valid \subseteq r.valid
      PROVE  r \in Near(n)
  <2>1. k \in Cache /\ Cardinality(All \ k.valid) <= n
        BY DEF Near
  <2>2. All \ r.valid \in SUBSET (All \ k.valid)
        BY <1>5
  <2>3. Cardinality(All \ r.valid) <= Cardinality(All \ k.valid)
        BY <2>1, <2>2, <1>3, FS_Subset
  <2>4. Cardinality(All \ r.valid) \in Nat /\ Cardinality(All \ k.valid) \in Nat
        BY <2>1, <1>3
  <2>5. Cardinality(All \ r.valid) <= n
        BY <2>1, <2>3, <2>4
  <2>. QED  BY <2>5 DEF Near
<1>6. \A n \in Nat : Upward(Near(n))
      BY <1>5 DEF Upward, Near
<1>7. ASSUME NEW k \in Near(0)
      PROVE  All \subseteq k.valid
  <2>1. k \in Cache /\ Cardinality(All \ k.valid) <= 0
        BY DEF Near
  <2>2. Cardinality(All \ k.valid) = 0
        BY <2>1, <1>3
  <2>3. All \ k.valid = {}
        BY <2>1, <2>2, <1>3, FS_EmptySet
  <2>. QED  BY <2>3
<1>8. ASSUME NEW n \in Nat, NEW k \in Near(n + 1), NEW s \in All, s \notin k.valid
      PROVE  [k EXCEPT !.valid = @ \cup {s}] \in Near(n)
  <2> DEFINE v == [k EXCEPT !.valid = @ \cup {s}]
  <2>1. k \in Cache /\ Cardinality(All \ k.valid) <= n + 1
        BY DEF Near
  <2>2. v \in Cache
        BY <2>1, CacheSteps
  <2>3. v.valid = k.valid \cup {s}
        BY <2>1 DEF Cache
  <2>4. All \ v.valid = (All \ k.valid) \ {s} /\ s \in All \ k.valid
        BY <2>3, <1>8
  <2>. HIDE DEF v
  <2>5. Cardinality(All \ v.valid) = Cardinality(All \ k.valid) - 1
        BY <2>1, <2>4, <1>3, FS_RemoveElement
  <2>6. Cardinality(All \ v.valid) <= n
        BY <2>1, <2>5, <1>3
  <2>7. v \in Near(n)
        BY <2>2, <2>6 DEF Near
  <2>. QED  BY <2>7 DEF v
<1>9. \A k \in Near(0), s \in All : s \in k.valid
      BY <1>7
<1>. QED  BY <1>1, <1>3, <1>4, <1>6, <1>8, <1>9

(* What sym_calc_value makes of s, when calc does so of what it asks for. *)
CalcOnce(calc, s, k, u) ==
    IF s \in k.valid THEN k
    ELSE Calculate(calc, s, [k EXCEPT !.valid = @ \cup {s}], u)

Once(calc, u) == [s \in All |-> [k \in Cache |-> CalcOnce(calc, s, k, u)]]

LEMMA OnceAlike ==
    ASSUME NEW g, NEW h, NEW n \in Nat, Alike(g, h, Near(n)), NEW u \in User,
           NEW k \in Near(n + 1), NEW s \in All
    PROVE  /\ CalcOnce(g, s, k, u) = CalcOnce(h, s, k, u)
           /\ CalcOnce(g, s, k, u) \in Cache
           /\ k.valid \cup {s} \subseteq CalcOnce(g, s, k, u).valid
<1>1. k \in Cache
      BY DEF Near
<1>2. CASE s \in k.valid
      BY <1>1, <1>2 DEF CalcOnce
<1>3. CASE s \notin k.valid
  <2> DEFINE v == [k EXCEPT !.valid = @ \cup {s}]
  <2>1. v \in Near(n)
        BY <1>3, NearFacts
  <2>2. v.valid = k.valid \cup {s}
        BY <1>1 DEF Cache
  <2>3. CalcOnce(g, s, k, u) = Calculate(g, s, v, u) /\ CalcOnce(h, s, k, u) = Calculate(h, s, v, u)
        BY <1>3 DEF CalcOnce
  <2>. HIDE DEF v
  <2>. QED  BY <2>1, <2>2, <2>3, CalculateAlike
<1>. QED  BY <1>2, <1>3

(* The calculation ends: there is such a function, ... *)
LEMMA SomeCalc ==
    ASSUME NEW u \in User
    PROVE  \E calc : calc = Once(calc, u) /\ Grows(calc, Cache)
<1> DEFINE last == Cardinality(All)
           n == last + 1
           X == {h \in [All -> [Cache -> Cache]] : Grows(h, Cache)}
           b == [s \in All |-> [k \in Cache |-> [k EXCEPT !.valid = @ \cup {s}]]]
           F == [i \in 1..n |-> [h \in X |-> Once(h, u)]]
<1>1. last \in Nat /\ n \in Nat /\ Near(last) = Cache
      BY NearFacts
<1>2. Upward(Cache)
      BY DEF Upward
<1>3. b \in X
  <2>1. \A s \in All, k \in Cache : /\ [k EXCEPT !.valid = @ \cup {s}] \in Cache
                                    /\ [k EXCEPT !.valid = @ \cup {s}].valid = k.valid \cup {s}
    <3>. TAKE s \in All, k \in Cache
    <3>1. [k EXCEPT !.valid = @ \cup {s}] \in Cache
          BY CacheSteps
    <3>. QED  BY <3>1 DEF Cache
  <2>2. \A s \in All, k \in Cache : b[s][k] = [k EXCEPT !.valid = @ \cup {s}]
        OBVIOUS
  <2>3. b \in [All -> [Cache -> Cache]]
        BY <2>1
  <2>. HIDE DEF b
  <2>4. \A s \in All, k \in Cache : b[s][k] \in Cache /\ k.valid \cup {s} \subseteq b[s][k].valid
        BY <2>1, <2>2
  <2>5. Grows(b, Cache)
        BY <2>4, <1>2 DEF Grows
  <2>. QED  BY <2>3, <2>5
<1>4. ASSUME NEW h \in X
      PROVE  Once(h, u) \in X
  <2>1. Alike(h, h, Near(last))
        BY <1>1 DEF Alike
  <2>2. \A s \in All, k \in Cache :
            /\ CalcOnce(h, s, k, u) \in Cache
            /\ k.valid \cup {s} \subseteq CalcOnce(h, s, k, u).valid
    <3>. TAKE s \in All, k \in Cache
    <3>1. k \in Near(last + 1)
      <4>1. Cardinality(All \ k.valid) \in Nat /\ Cardinality(All \ k.valid) <= last
        <5>1. k \in Near(last)
              BY <1>1
        <5>. QED  BY <5>1, NearFacts DEF Near
      <4>2. Cardinality(All \ k.valid) <= last + 1
            BY <4>1, <1>1
      <4>. QED  BY <4>2 DEF Near
    <3>. QED  BY <2>1, <3>1, <1>1, OnceAlike
  <2>3. \A s \in All, k \in Cache : Once(h, u)[s][k] = CalcOnce(h, s, k, u)
        BY DEF Once
  <2>4. Once(h, u) \in [All -> [Cache -> Cache]]
        BY <2>2 DEF Once
  <2>. QED  BY <2>2, <2>3, <2>4, <1>2 DEF Grows
<1>5. Rounds(F, 1..n, X)
      BY <1>4 DEF Rounds
<1>. HIDE DEF b, F, X, n
<1>6. PICK f \in [0..n -> X] : Chained(f, n, b, F)
      BY ONLY <1>1, <1>3, <1>5, Chain
<1>7. ASSUME NEW i \in 1..n
      PROVE  i - 1 \in 0..n /\ f[i] \in X /\ f[i - 1] \in X /\ f[i] = Once(f[i - 1], u)
  <2>1. i - 1 \in 0..n /\ i \in 0..n
        BY <1>1
  <2>2. f[i] = F[i][f[i - 1]] /\ f[i - 1] \in X /\ f[i] \in X
        BY <2>1, <1>6 DEF Chained
  <2>. QED  BY <2>1, <2>2 DEF F
<1>8. \A h \in X : Grows(h, Cache)
      BY DEF X
<1>9. \A h \in X, m \in Nat : Grows(h, Near(m))
  <2>. TAKE h \in X, m \in Nat
  <2>1. Near(m) \subseteq Cache
        BY DEF Near
  <2>. QED  BY <1>8, <2>1, NearFacts DEF Grows
<1> DEFINE Good == {m \in Nat : m <= last => Alike(f[m], f[m + 1], Near(m))}
<1>10. 0 \in Good
  <2>1. 0 \in 0..n /\ 1 \in 1..n /\ f[0] \in X /\ f[1] = Once(f[0], u) /\ f[0] = b
    <3>1. 0 \in 0..n /\ 1 \in 1..n
          BY <1>1 DEF n
    <3>. QED  BY <3>1, <1>6, <1>7 DEF Chained
  <2>2. ASSUME NEW s \in All, NEW k \in Near(0)
        PROVE  f[0][s][k] = f[1][s][k]
    <3>1. s \in k.valid /\ k \in Cache
          BY NearFacts DEF Near
    <3>2. b[s][k] = [k EXCEPT !.valid = @ \cup {s}]
          BY <3>1 DEF b
    <3>3. [k EXCEPT !.valid = @ \cup {s}] = k
      <4>1. k.valid \cup {s} = k.valid
            BY <3>1
      <4>. QED  BY <3>1, <4>1 DEF Cache
    <3>4. Once(b, u)[s][k] = k
          BY <3>1 DEF Once, CalcOnce
    <3>. QED  BY <2>1, <3>2, <3>3, <3>4
  <2>3. Alike(f[0], f[1], Near(0))
        BY <2>1, <2>2, <1>9 DEF Alike
  <2>. QED  BY <2>3
<1>11. ASSUME NEW m \in Nat, m \in Good
       PROVE  m + 1 \in Good
  <2>. SUFFICES ASSUME m + 1 <= last
                PROVE  Alike(f[m + 1], f[(m + 1) + 1], Near(m + 1))
       OBVIOUS
  <2>1. m + 1 \in 1..n /\ (m + 1) + 1 \in 1..n /\ m <= last /\ (m + 1) - 1 = m
        /\ ((m + 1) + 1) - 1 = m + 1
        BY <1>1 DEF n
  <2>2. Alike(f[m], f[m + 1], Near(m))
        BY <1>11, <2>1
  <2>3. f[m + 1] = Once(f[m], u) /\ f[(m + 1) + 1] = Once(f[m + 1], u) /\ f[m + 1] \in X
        BY <2>1, <1>7
  <2>4. ASSUME NEW s \in All, NEW k \in Near(m + 1)
        PROVE  f[m + 1][s][k] = f[(m + 1) + 1][s][k]
    <3>1. CalcOnce(f[m], s, k, u) = CalcOnce(f[m + 1], s, k, u)
          BY <2>2, OnceAlike
    <3>2. k \in Cache
          BY DEF Near
    <3>3. Once(f[m], u)[s][k] = CalcOnce(f[m], s, k, u)
          BY <3>2 DEF Once
    <3>4. Once(f[m + 1], u)[s][k] = CalcOnce(f[m + 1], s, k, u)
          BY <3>2 DEF Once
    <3>. QED  BY <2>3, <3>1, <3>3, <3>4
  <2>. QED  BY <2>3, <2>4, <1>9 DEF Alike
<1>12. last \in Good
  <2>. HIDE DEF Good
  <2>. QED  BY <1>1, <1>10, <1>11, SetInduction
<1>13. Alike(f[last], f[n], Cache)
       BY <1>1, <1>12 DEF n
<1>14. n \in 1..n /\ n - 1 = last /\ last \in 0..n
       BY <1>1 DEF n
<1>15. f[n] = Once(f[last], u) /\ f[last] \in X /\ f[n] \in X
       BY <1>7, <1>14
<1>16. f[n] = f[last]
  <2>1. f[n] \in [All -> [Cache -> Cache]] /\ f[last] \in [All -> [Cache -> Cache]]
        BY <1>15 DEF X
  <2>2. \A s \in All : f[n][s] = f[last][s]
    <3>. TAKE s \in All
    <3>1. \A k \in Cache : f[n][s][k] = f[last][s][k]
          BY <1>13 DEF Alike
    <3>2. f[n][s] \in [Cache -> Cache] /\ f[last][s] \in [Cache -> Cache]
          BY <2>1
    <3>. QED  BY <3>1, <3>2
  <2>. QED  BY <2>1, <2>2
<1>17. f[n] = Once(f[n], u) /\ Grows(f[n], Cache)
       BY <1>8, <1>15, <1>16
<1>. QED  BY <1>17

(* ... and the one that is taken is such a function. *)
LEMMA CalcWorks ==
    ASSUME NEW u \in User
    PROVE  /\ Alike(Calc(u), Calc(u), Cache)
           /\ \A s \in All, k \in Cache : Calc(u)[s][k] = CalcOnce(Calc(u), s, k, u)
<1> DEFINE c == Calc(u)
<1>1. PICK h : h = Once(h, u) /\ Grows(h, Cache)
      BY SomeCalc
<1>2. c = CHOOSE calc : calc = Once(calc, u)
      BY DEF Calc, Once, CalcOnce
<1>3. c = Once(c, u)
      BY <1>1, <1>2
<1>. HIDE DEF c
<1>4. /\ \A s \in All, k \in Cache : c[s][k] = CalcOnce(c, s, k, u)
      /\ \A s \in All, k \in Cache : h[s][k] = CalcOnce(h, s, k, u)
  <2>1. \A g : g = Once(g, u) => \A s \in All, k \in Cache : g[s][k] = CalcOnce(g, s, k, u)
        BY DEF Once
  <2>. QED  BY <2>1, <1>1, <1>3
<1>5. \A m \in Nat : Near(m) \subseteq Cache /\ Grows(h, Near(m))
      BY <1>1, NearFacts DEF Near, Grows
<1> DEFINE Good == {m \in Nat : Alike(h, c, Near(m))}
<1>6. 0 \in Good
  <2>1. ASSUME NEW s \in All, NEW k \in Near(0)
        PROVE  h[s][k] = c[s][k]
    <3>1. s \in k.valid /\ k \in Cache
          BY NearFacts DEF Near
    <3>. QED  BY <3>1, <1>4 DEF CalcOnce
  <2>. QED  BY <2>1, <1>5 DEF Alike
<1>7. ASSUME NEW m \in Nat, m \in Good
      PROVE  m + 1 \in Good
  <2>1. ASSUME NEW s \in All, NEW k \in Near(m + 1)
        PROVE  h[s][k] = c[s][k]
    <3>1. CalcOnce(h, s, k, u) = CalcOnce(c, s, k, u)
          BY <1>7, OnceAlike
    <3>2. k \in Cache
          BY DEF Near
    <3>. QED  BY <3>1, <3>2, <1>4
  <2>2. m + 1 \in Nat
        OBVIOUS
  <2>. QED  BY <2>1, <2>2, <1>5 DEF Alike
<1>8. Cardinality(All) \in Good
  <2>. HIDE DEF Good
  <2>. QED  BY <1>6, <1>7, SetInduction, NearFacts
<1>9. Alike(h, c, Cache)
      BY <1>8, NearFacts
<1>. QED  BY <1>4, <1>9, GrowsInside DEF c

-----------------------------------------------------------------------------
(* What a symbol is calculated from.                                       *)

(* The groups below g: those it needs, those they need, and so on. *)
Below(g) ==
    {h \in Groups :
        \A D \in SUBSET Groups : Down(D) /\ (\A s \in Needs(g) : Group(s) \in D) => h \in D}

LEMMA BelowFacts ==
    ASSUME NEW g \in Groups
    PROVE  /\ Down(Below(g)) /\ g \notin Below(g)
           /\ \A s \in Needs(g) : s \in All /\ Group(s) \in Below(g)
           /\ \A h \in Below(g) : h \in Groups /\ Below(h) \subseteq Below(g)
<1>1. \A h \in Groups : \A s \in Needs(h) : s \in All /\ Group(s) \in Groups
      BY NeedsKnown, GroupIn
<1>2. \A s \in Needs(g) : s \in All /\ Group(s) \in Below(g)
      BY <1>1 DEF Below
<1>3. Down(Below(g))
      BY <1>1 DEF Below, Down
<1>4. g \notin Below(g)
  <2> DEFINE D == UNION {E \in SUBSET Groups : Down(E) /\ g \notin E}
  <2>1. Down(D) /\ g \notin D /\ D \in SUBSET Groups
        BY DEF Down
  <2>2. PICK h \in Groups \ D : \A s \in Needs(h) : Group(s) \notin Groups \ D
        BY <2>1, NoCircles
  <2>3. \A s \in Needs(h) : Group(s) \in D
        BY <2>2, <1>1
  <2>4. Down(D \cup {h})
        BY <2>1, <2>2, <2>3 DEF Down
  <2>5. h = g
        BY <2>1, <2>2, <2>4 DEF Down
  <2>. HIDE DEF D
  <2>. QED  BY <2>1, <2>3, <2>5 DEF Below
<1>5. ASSUME NEW h \in Below(g)
      PROVE  h \in Groups /\ Below(h) \subseteq Below(g)
  <2>1. \A s \in Needs(h) : Group(s) \in Below(g)
        BY <1>3, <1>5 DEF Down
  <2>2. Below(g) \in SUBSET Groups
        BY DEF Below
  <2>3. \A x \in Below(h) : x \in Below(g)
        BY <1>3, <2>1, <2>2 DEF Below
  <2>. QED  BY <2>2, <2>3
<1>. QED  BY <1>2, <1>3, <1>4, <1>5

(* What calculating s may ask for. *)
Depends(s) ==
    {t \in All : Group(t) \in Below(Group(s))}
        \cup (IF s \in Member THEN {ChoiceOf(s)} ELSE {})

Closed(A) == A \subseteq All /\ \A s \in A : Depends(s) \subseteq A

LEMMA DependsClosed ==
    ASSUME NEW s \in All
    PROVE  Closed(Depends(s)) /\ s \notin Depends(s)
<1> DEFINE g == Group(s)
<1>1. g \in Groups
      BY GroupIn
<1>2. s \in Member => /\ ChoiceOf(s) \in Choice /\ ChoiceOf(s) \in All /\ Group(ChoiceOf(s)) = g
                      /\ ChoiceOf(s) # s /\ ChoiceOf(s) \notin Member
  <2>. HAVE s \in Member
  <2>1. ChoiceOf(s) \in Choice /\ s \in In(ChoiceOf(s))
        BY AskedForKnown
  <2>. QED  BY <2>1, OfWithMembers, ChoiceAssumption DEF All, Group, Sym
<1>3. s \notin Depends(s)
      BY <1>1, <1>2, BelowFacts DEF Depends
<1>4. ASSUME NEW t \in All, Group(t) \in Below(g)
      PROVE  Depends(t) \subseteq Depends(s)
  <2>1. Below(Group(t)) \subseteq Below(g)
        BY <1>1, <1>4, BelowFacts
  <2>2. t \in Member => ChoiceOf(t) \in All /\ Group(ChoiceOf(t)) = Group(t)
    <3>. HAVE t \in Member
    <3>1. ChoiceOf(t) \in Choice
          BY AskedForKnown
    <3>. QED  BY <3>1, OfWithMembers DEF All, Group
  <2>. QED  BY <1>4, <2>1, <2>2 DEF Depends
<1>5. s \in Member => Depends(ChoiceOf(s)) \subseteq Depends(s)
      BY <1>2 DEF Depends
<1>6. Depends(s) \subseteq All
      BY <1>2 DEF Depends
<1>. QED  BY <1>3, <1>4, <1>5, <1>6 DEF Closed, Depends

LEMMA DependsFacts ==
    ASSUME NEW s \in All
    PROVE  /\ Needs(Group(s)) \subseteq Depends(s)
           /\ Mentions(Prompt[s]) \subseteq Depends(s)
           /\ s \in Plain => /\ Mentions(Select[s]) \subseteq Depends(s)
                             /\ \A i \in 1..Len(Default[s]) :
                                   /\ Mentions(Default[s][i].when) \subseteq Depends(s)
                                   /\ Mentions(Default[s][i].value) \subseteq Depends(s)
           /\ s \in Choice => /\ \A m \in In(s) : Mentions(Prompt[m]) \subseteq Depends(s)
                              /\ \A X \in Whens(s) : Mentions(X) \subseteq Depends(s)
<1>1. Group(s) \in Groups
      BY GroupIn
<1>2. Needs(Group(s)) \subseteq Depends(s)
      BY <1>1, BelowFacts DEF Depends
<1>3. CASE s \in Plain
  <2>1. Group(s) = s /\ s \notin Choice
        BY <1>3, OfPlain
  <2>2. Mentions(Prompt[s]) \subseteq Needs(s) /\ Mentions(Select[s]) \subseteq Needs(s)
        BY <2>1 DEF Needs
  <2>3. \A i \in 1..Len(Default[s]) : /\ Mentions(Default[s][i].when) \subseteq Needs(s)
                                      /\ Mentions(Default[s][i].value) \subseteq Needs(s)
        BY <1>3, <2>1, DefaultsKnown DEF Needs, Range
  <2>. QED  BY <1>2, <2>1, <2>2, <2>3
<1>4. CASE s \in Choice
  <2>1. Group(s) = s /\ s \notin Plain
        BY <1>4, OfWithMembers
  <2>2. \A m \in In(s) \cup {s} : Mentions(Prompt[m]) \subseteq Needs(s)
        BY <1>4 DEF Needs
  <2>3. \A X \in Whens(s) : Mentions(X) \subseteq Needs(s)
    <3>1. Mentions(Always) = {}
          BY DEF Mentions, Always
    <3>. QED  BY <3>1, <1>4 DEF Needs, Whens
  <2>. QED  BY <1>2, <2>1, <2>2, <2>3
<1>5. CASE s \in Member
  <2>1. ChoiceOf(s) \in Choice /\ s \in In(ChoiceOf(s)) /\ Group(s) = ChoiceOf(s)
        BY <1>5, AskedForKnown DEF Group
  <2>2. s \notin Plain /\ s \notin Choice
        BY <1>5, ChoiceAssumption DEF Sym
  <2>3. Mentions(Prompt[s]) \subseteq Needs(ChoiceOf(s))
        BY <2>1 DEF Needs
  <2>. QED  BY <1>2, <2>1, <2>2, <2>3
<1>. QED  BY <1>3, <1>4, <1>5 DEF All, Sym

-----------------------------------------------------------------------------
(* What a calculation does to a cache.                                     *)

(* The cache has for s what v gives. *)
Right(k, s, v, u) ==
    /\ s \in k.on <=> s \in v
    /\ s \in Plain =>
           (s \in k.write <=> Visible(s, v) \/ Selected(s, v) \/ Applicable(s, v) # {})
    /\ s \in Choice => /\ k.pick[s] = (IF s \in v THEN Picked(s, v, u) ELSE None)
                       /\ \A m \in In(s) : m \in k.write <=> Visible(s, v)

(* Two caches have the same for s. *)
Same(k, r, s) ==
    /\ s \in k.on <=> s \in r.on
    /\ s \in Plain => (s \in k.write <=> s \in r.write)
    /\ s \in Choice => /\ k.pick[s] = r.pick[s]
                       /\ \A m \in In(s) : m \in k.write <=> m \in r.write

(* From k to r valid symbols other than x stay what they are, and those    *)
(* that become valid are right.                                            *)
Leads(x, k, r, v, u) ==
    /\ r \in Cache /\ k.valid \subseteq r.valid
    /\ \A s \in All : s \in k.valid /\ s # x => Same(k, r, s)
    /\ \A s \in All : s \in r.valid /\ s \notin k.valid => Right(r, s, v, u)
    /\ \A c \in Choice : c \notin r.valid => \A m \in In(c) : m \in k.write <=> m \in r.write

(* Of the symbols of A those that are valid are right. *)
Fine(A, k, v, u) == \A s \in A : s \in k.valid => Right(k, s, v, u)

(* Members of a choice that is not valid have no SYMBOL_WRITE. *)
Unmarked(k) == \A c \in Choice : c \notin k.valid => \A m \in In(c) : m \notin k.write

LEMMA SameRight ==
    ASSUME NEW k, NEW r, NEW s, NEW v, NEW u, Same(k, r, s), Right(k, s, v, u)
    PROVE  Right(r, s, v, u)
BY DEF Same, Right

LEMMA LeadsNowhere ==
    ASSUME NEW k \in Cache, NEW x, NEW v, NEW u
    PROVE  Leads(x, k, k, v, u)
BY DEF Leads, Same

LEMMA LeadsOn ==
    ASSUME NEW x, NEW k, NEW r, NEW q, NEW v, NEW u, x \in All => x \in k.valid,
           Leads(x, k, r, v, u), Leads(x, r, q, v, u)
    PROVE  Leads(x, k, q, v, u)
<1>1. q \in Cache /\ k.valid \subseteq q.valid /\ k.valid \subseteq r.valid /\ r.valid \subseteq q.valid
      BY DEF Leads
<1>2. ASSUME NEW s \in All, s \in k.valid, s # x
      PROVE  Same(k, q, s)
  <2>1. Same(k, r, s) /\ Same(r, q, s)
        BY <1>1, <1>2 DEF Leads
  <2>. QED  BY <2>1 DEF Same
<1>3. ASSUME NEW s \in All, s \in q.valid, s \notin k.valid
      PROVE  Right(q, s, v, u)
  <2>1. CASE s \in r.valid
    <3>1. Right(r, s, v, u) /\ s # x
          BY <1>3, <2>1 DEF Leads
    <3>2. Same(r, q, s)
          BY <2>1, <3>1 DEF Leads
    <3>. QED  BY <3>1, <3>2, SameRight
  <2>2. CASE s \notin r.valid
        BY <1>3, <2>2 DEF Leads
  <2>. QED  BY <2>1, <2>2
<1>4. ASSUME NEW c \in Choice, c \notin q.valid, NEW m \in In(c)
      PROVE  m \in k.write <=> m \in q.write
  <2>1. c \notin r.valid
        BY <1>1, <1>4
  <2>. QED  BY <1>4, <2>1 DEF Leads
<1>. QED  BY <1>1, <1>2, <1>3, <1>4 DEF Leads

LEMMA LeadsBut ==
    ASSUME NEW x, NEW k, NEW r, NEW v, NEW u, Leads(None, k, r, v, u)
    PROVE  Leads(x, k, r, v, u)
<1>1. None \notin All
      BY ChoiceAssumption
<1>. QED  BY <1>1 DEF Leads

LEMMA LeadsKeeps ==
    ASSUME NEW x, NEW k, NEW r, NEW v, NEW u, Leads(x, k, r, v, u)
    PROVE  /\ Unmarked(k) => Unmarked(r)
           /\ \A A \in SUBSET All : x \notin A /\ Fine(A, k, v, u) => Fine(A, r, v, u)
<1>1. Unmarked(k) => Unmarked(r)
      BY DEF Leads, Unmarked
<1>2. ASSUME NEW A \in SUBSET All, x \notin A, Fine(A, k, v, u), NEW s \in A, s \in r.valid
      PROVE  Right(r, s, v, u)
  <2>1. CASE s \in k.valid
    <3>1. Same(k, r, s) /\ Right(k, s, v, u)
          BY <1>2, <2>1 DEF Leads, Fine
    <3>. QED  BY <3>1, SameRight
  <2>2. CASE s \notin k.valid
        BY <1>2, <2>2 DEF Leads
  <2>. QED  BY <2>1, <2>2
<1>. QED  BY <1>1, <1>2 DEF Fine

(* What changes s alone. *)
LEMMA LeadsOwn ==
    ASSUME NEW s \in All, NEW k, NEW r \in Cache, NEW v, NEW u, s \in k.valid, r.valid = k.valid,
           \A x \in All : x # s => Same(k, r, x)
    PROVE  Leads(s, k, r, v, u)
<1>1. ASSUME NEW c \in Choice, c \notin r.valid
      PROVE  \A m \in In(c) : m \in k.write <=> m \in r.write
  <2>1. c \in All /\ c # s
        BY <1>1 DEF All
  <2>. QED  BY <1>1, <2>1 DEF Same
<1>. QED  BY <1>1 DEF Leads

-----------------------------------------------------------------------------
(* That what is calculated is right, if what is asked for on the way is.   *)

(* A cache the calculation may be asked with for the symbols of A, at most *)
(* n of all symbols not being valid.                                       *)
Sound(n, A, k, v, u) == k \in Near(n) /\ Unmarked(k) /\ Fine(A, k, v, u)

(* With such a cache, each symbol that is asked for comes out right.       *)
Correct(n, v, u) ==
    \A A : Closed(A) =>
        \A k : Sound(n, A, k, v, u) =>
            \A s \in A : Leads(None, k, Calc(u)[s][k], v, u)

LEMMA SoundOn ==
    ASSUME NEW n \in Nat, NEW A \in SUBSET All, NEW k, NEW r, NEW v, NEW u, NEW x, x \notin A,
           Sound(n, A, k, v, u), Leads(x, k, r, v, u)
    PROVE  Sound(n, A, r, v, u)
<1>1. k \in Near(n) /\ r \in Cache /\ k.valid \subseteq r.valid
      BY DEF Sound, Leads
<1>2. r \in Near(n)
      BY <1>1, NearFacts DEF Upward
<1>. QED  BY <1>2, LeadsKeeps DEF Sound

LEMMA NobodyIn == None \notin All /\ \A A : Closed(A) => A \in SUBSET All /\ None \notin A
BY ChoiceAssumption DEF Closed

LEMMA AskRight ==
    ASSUME NEW n \in Nat, NEW u \in User, NEW v, Correct(n, v, u), NEW A, Closed(A),
           NEW k, Sound(n, A, k, v, u), NEW S \in SUBSET All, S \subseteq A \cup k.valid
    PROVE  /\ Leads(None, k, AskAll(Calc(u), S, k), v, u)
           /\ Sound(n, A, AskAll(Calc(u), S, k), v, u)
           /\ Agree(AskAll(Calc(u), S, k).on, v, S \cap A)
           /\ \A s \in S \cap A : Right(AskAll(Calc(u), S, k), s, v, u)
<1> DEFINE g == Calc(u)
           t == AskAll(g, S, k)
<1>0. A \in SUBSET All /\ None \notin A /\ None \notin All
      BY NobodyIn
<1>1. Alike(g, g, Cache) /\ \A s \in All, r \in Cache : g[s][r] = CalcOnce(g, s, r, u)
      BY CalcWorks
<1>. HIDE DEF g
<1>2. k \in Near(n) /\ k \in Cache
      BY DEF Sound, Near
<1>3. Rounds(g, All, Cache)
      BY <1>1, GrowsInside
<1>4. S \in SUBSET All
      OBVIOUS
<1>5. PICK r : Taken(r, S, k, g) /\ AskAll(g, S, k) = r[S]
      BY ONLY <1>2, <1>3, <1>4, AskedInTurn
<1>6. IsFiniteSet(S)
      BY <1>2, <1>3, AskedInTurn
<1> DEFINE P == {T \in SUBSET S : Leads(None, k, r[T], v, u)}
<1>7. {} \in P
  <2>1. r[{}] = k
        BY <1>5 DEF Taken
  <2>. QED  BY <2>1, <1>2, LeadsNowhere
<1>8. ASSUME NEW T \in SUBSET S, T # {}, T \ {CHOOSE s \in T : TRUE} \in P
      PROVE  T \in P
  <2> DEFINE x == CHOOSE s \in T : TRUE
             U == T \ {x}
  <2>1. x \in T /\ x \in All /\ x \in A \cup k.valid
        BY <1>8
  <2>2. r[T] = g[x][r[U]]
        BY <1>5, <1>8 DEF Taken
  <2>3. Leads(None, k, r[U], v, u)
        BY <1>8
  <2>. HIDE DEF x, U
  <2>4. r[U] \in Cache /\ k.valid \subseteq r[U].valid
        BY <2>3 DEF Leads
  <2>5. CASE x \in r[U].valid
    <3>1. g[x][r[U]] = r[U]
          BY <2>1, <2>4, <2>5, <1>1 DEF CalcOnce
    <3>. QED  BY <2>2, <2>3, <3>1
  <2>6. CASE x \notin r[U].valid
    <3>1. x \in A
          BY <2>1, <2>4, <2>6
    <3>2. Sound(n, A, r[U], v, u)
          BY <2>3, <1>0, SoundOn
    <3>3. Leads(None, r[U], r[T], v, u)
          BY <2>2, <3>1, <3>2 DEF Correct, g
    <3>4. Leads(None, k, r[T], v, u)
          BY ONLY <1>0, <2>3, <3>3, LeadsOn
    <3>. QED  BY <3>4
  <2>. QED  BY <2>5, <2>6
<1>. HIDE DEF P
<1>9. S \in P
  <2>1. SUBSET S \subseteq P
        BY ONLY <1>6, <1>7, <1>8, SubsetInduction
  <2>2. S \in SUBSET S
        OBVIOUS
  <2>. QED  BY <2>1, <2>2
<1>10. Leads(None, k, t, v, u)
       BY <1>5, <1>9 DEF P
<1>11. S \subseteq t.valid
       BY <1>1, <1>2, <1>4, AskAlike
<1>. HIDE DEF t
<1>12. Sound(n, A, t, v, u)
       BY <1>0, <1>10, SoundOn
<1>13. \A s \in S \cap A : Right(t, s, v, u)
       BY <1>11, <1>12 DEF Sound, Fine
<1>14. Agree(t.on, v, S \cap A)
       BY <1>13 DEF Right, Agree
<1>. QED  BY <1>10, <1>12, <1>13, <1>14 DEF t, g

(* What sym_calc_visibility asks for. *)
Asked(s) ==
    Mentions(Prompt[s])
        \cup (IF s \in Plain THEN Mentions(Select[s]) ELSE {})
        \cup (IF s \in Member THEN {ChoiceOf(s)} ELSE {})

LEMMA VisibilityRight ==
    ASSUME NEW n \in Nat, NEW u \in User, NEW v, Correct(n, v, u), NEW A, Closed(A),
           NEW k, Sound(n, A, k, v, u), NEW s \in All, Asked(s) \subseteq A \cup k.valid,
           Mentions(Prompt[s]) \subseteq A, s \in Plain => Mentions(Select[s]) \subseteq A,
           NEW t, t = CalcVisibility(Calc(u), s, k)
    PROVE  /\ Leads(None, k, t, v, u) /\ Sound(n, A, t, v, u)
           /\ Holds(Prompt[s], t.on) <=> Holds(Prompt[s], v)
           /\ s \in Plain => (Selected(s, t.on) <=> Selected(s, v))
           /\ s \in Member /\ ChoiceOf(s) \in A => Right(t, ChoiceOf(s), v, u)
<1>1. Asked(s) \in SUBSET All
      BY AskedForKnown DEF All, Asked
<1>2. t = AskAll(Calc(u), Asked(s), k)
      BY DEF CalcVisibility, Asked
<1>3. /\ Leads(None, k, t, v, u) /\ Sound(n, A, t, v, u)
      /\ Agree(t.on, v, Asked(s) \cap A)
      /\ \A x \in Asked(s) \cap A : Right(t, x, v, u)
      BY <1>1, <1>2, AskRight
<1>4. \A X : Mentions(X) \subseteq Asked(s) \cap A => (Holds(X, t.on) <=> Holds(X, v))
      BY <1>3, HoldsLocal DEF Agree
<1>5. Holds(Prompt[s], t.on) <=> Holds(Prompt[s], v)
      BY <1>4 DEF Asked
<1>6. s \in Plain => (Selected(s, t.on) <=> Selected(s, v))
      BY <1>4 DEF Asked, Selected
<1>7. s \in Member /\ ChoiceOf(s) \in A => Right(t, ChoiceOf(s), v, u)
      BY <1>3 DEF Asked
<1>. QED  BY <1>3, <1>5, <1>6, <1>7

(* A symbol that is calculated asks only for what it depends on. *)
LEMMA OwnVisibilityRight ==
    ASSUME NEW n \in Nat, NEW u \in User, NEW v, Correct(n, v, u), NEW s \in All,
           NEW k, Sound(n, Depends(s), k, v, u), NEW t, t = CalcVisibility(Calc(u), s, k)
    PROVE  /\ Leads(None, k, t, v, u) /\ Sound(n, Depends(s), t, v, u)
           /\ Visible(s, t.on) <=> Visible(s, v)
           /\ s \in Plain => (Selected(s, t.on) <=> Selected(s, v))
           /\ s \in Member => Right(t, ChoiceOf(s), v, u)
<1>1. Closed(Depends(s))
      BY DependsClosed
<1>2. /\ Mentions(Prompt[s]) \subseteq Depends(s)
      /\ s \in Plain => Mentions(Select[s]) \subseteq Depends(s)
      /\ s \in Member => ChoiceOf(s) \in Depends(s)
      BY DependsFacts DEF Depends
<1>3. Asked(s) \subseteq Depends(s) \cup k.valid
      BY <1>2 DEF Asked
<1>4. /\ Leads(None, k, t, v, u) /\ Sound(n, Depends(s), t, v, u)
      /\ Holds(Prompt[s], t.on) <=> Holds(Prompt[s], v)
      /\ s \in Plain => (Selected(s, t.on) <=> Selected(s, v))
      /\ s \in Member => Right(t, ChoiceOf(s), v, u)
      BY <1>1, <1>2, <1>3, VisibilityRight
<1>5. s \in Member => (ChoiceOf(s) \in t.on <=> ChoiceOf(s) \in v)
      BY <1>4 DEF Right
<1>. QED  BY <1>4, <1>5 DEF Visible

LEMMA FirstFound ==
    ASSUME NEW I \in SUBSET Nat, NEW i \in I, \A j \in I : i <= j
    PROVE  First(I) = i
<1>1. First(I) \in I /\ First(I) <= i
      BY FirstIsLeast
<1>2. First(I) \in Nat /\ i \in Nat /\ i <= First(I)
      BY <1>1
<1>. QED  BY <1>1, <1>2

LEMMA DefaultRight ==
    ASSUME NEW n \in Nat, NEW u \in User, NEW v, Correct(n, v, u), NEW s \in Plain,
           NEW k, Sound(n, Depends(s), k, v, u), NEW d, d = DefaultProp(Calc(u), s, k)
    PROVE  /\ Leads(None, k, d.cache, v, u) /\ Sound(n, Depends(s), d.cache, v, u)
           /\ IF d.at = 0 THEN Applicable(s, v) = {}
              ELSE /\ d.at \in 1..Len(Default[s])
                   /\ Applicable(s, v) # {} /\ d.at = First(Applicable(s, v))
<1> DEFINE g == Calc(u)
           A == Depends(s)
           I == Applicable(s, v)
           m == Len(Default[s])
<1>1. s \in All /\ Closed(A) /\ A \in SUBSET All /\ None \notin A /\ None \notin All
      BY OfPlain, DependsClosed, NobodyIn
<1>2. m \in Nat /\ \A i \in 1..m : /\ Mentions(Default[s][i].when) \subseteq A
                                   /\ i \in I <=> Holds(Default[s][i].when, v)
      BY <1>1, DefaultsKnown, DependsFacts DEF Applicable
<1>3. I \in SUBSET (1..m) /\ I \in SUBSET Nat
      BY DefaultsKnown DEF Applicable
<1>4. k \in Cache
      BY DEF Sound, Near
<1>5. PICK f : Searches(f, g, s, k) /\ d = f[m]
  <2>1. Alike(g, g, Cache)
        BY CalcWorks
  <2>. HIDE DEF g
  <2>2. PICK f : Searches(f, g, s, k) /\ DefaultProp(g, s, k) = f[Len(Default[s])]
        BY <2>1, <1>4, DefaultInTurn
  <2>. QED  BY <2>2 DEF g
<1>. HIDE DEF A, I, m
<1> DEFINE Got(i) == /\ Leads(None, k, f[i].cache, v, u)
                     /\ Sound(n, A, f[i].cache, v, u)
                     /\ IF f[i].at = 0 THEN \A j \in 1..i : j \notin I
                        ELSE f[i].at \in I /\ \A j \in I : f[i].at <= j
           Good == {i \in Nat : i <= m => Got(i)}
<1>6. 0 \in Good
  <2>1. f[0] = [at |-> 0, cache |-> k]
        BY <1>5 DEF Searches
  <2>2. Leads(None, k, k, v, u) /\ Sound(n, A, k, v, u)
        BY <1>4, LeadsNowhere DEF A
  <2>. QED  BY <2>1, <2>2
<1>7. ASSUME NEW i \in Nat, i \in Good
      PROVE  i + 1 \in Good
  <2>. SUFFICES ASSUME i + 1 <= m
                PROVE  Got(i + 1)
       OBVIOUS
  <2> DEFINE j == i + 1
             S == Mentions(Default[s][j].when)
             t == AskAll(g, S, f[i].cache)
  <2>1. j \in 1..m /\ j - 1 = i /\ i <= m /\ j # 0
        BY <1>2
  <2>2. Got(i)
        BY <1>7, <2>1
  <2>3. S \in SUBSET All /\ S \subseteq A /\ S \cap A = S
        BY <1>1, <1>2, <2>1
  <2>4. f[j] = TryDefault(g, s, j, f[i])
    <3>1. j \in 1..Len(Default[s])
          BY <2>1 DEF m
    <3>2. f[j] = TryDefault(g, s, j, f[j - 1])
          BY <3>1, <1>5 DEF Searches
    <3>. QED  BY <3>2, <2>1
  <2>. HIDE DEF j, S
  <2>5. /\ Leads(None, f[i].cache, t, v, u) /\ Sound(n, A, t, v, u)
        /\ Agree(t.on, v, S)
    <3> DEFINE x == f[i].cache
    <3>. HIDE DEF x
    <3>1. S \in SUBSET All /\ S \subseteq A \cup x.valid /\ S \cap A = S
          BY <2>3
    <3>2. Sound(n, A, x, v, u)
          BY <2>2 DEF x
    <3>3. n \in Nat /\ u \in User /\ Correct(n, v, u) /\ Closed(A)
          BY <1>1
    <3>4. /\ Leads(None, x, AskAll(Calc(u), S, x), v, u)
          /\ Sound(n, A, AskAll(Calc(u), S, x), v, u)
          /\ Agree(AskAll(Calc(u), S, x).on, v, S \cap A)
          BY ONLY <3>1, <3>2, <3>3, AskRight
    <3>. QED  BY <3>1, <3>4 DEF x
  <2>. HIDE DEF t
  <2>6. Leads(None, k, t, v, u)
        BY ONLY <1>1, <2>2, <2>5, LeadsOn
  <2>7. Holds(Default[s][j].when, t.on) <=> j \in I
    <3>1. Holds(Default[s][j].when, t.on) <=> Holds(Default[s][j].when, v)
          BY <2>5, HoldsLocal DEF S
    <3>. QED  BY <3>1, <2>1, <1>2
  <2>8. f[j] = IF f[i].at # 0 THEN f[i]
               ELSE [at |-> IF j \in I THEN j ELSE 0, cache |-> t]
        BY <2>4, <2>7 DEF TryDefault, t, S
  <2>9. CASE f[i].at # 0
        BY <2>2, <2>8, <2>9 DEF j
  <2>10. CASE f[i].at = 0 /\ j \in I
    <3>1. f[j].at = j /\ f[j].cache = t
          BY <2>8, <2>10
    <3>2. \A l \in 1..i : l \notin I
          BY <2>2, <2>10
    <3>3. \A l \in I : j <= l
          BY <3>2, <1>3 DEF j
    <3>4. Got(j)
          BY <2>1, <2>5, <2>6, <2>10, <3>1, <3>3
    <3>. QED  BY <3>4 DEF j
  <2>11. CASE f[i].at = 0 /\ j \notin I
    <3>1. f[j].at = 0 /\ f[j].cache = t
          BY <2>8, <2>11
    <3>2. \A l \in 1..i : l \notin I
          BY <2>2, <2>11
    <3>3. \A l \in 1..j : l \notin I
          BY <3>2, <2>11 DEF j
    <3>4. Got(j)
          BY <2>5, <2>6, <3>1, <3>3
    <3>. QED  BY <3>4 DEF j
  <2>. QED  BY <2>9, <2>10, <2>11
<1>8. Got(m)
  <2>. HIDE DEF Got
  <2>1. m \in Good
    <3>. HIDE DEF Good
    <3>. QED  BY <1>2, <1>6, <1>7, SetInduction
  <2>. QED  BY <1>2, <2>1
<1>9. IF d.at = 0 THEN I = {} ELSE d.at \in I /\ d.at = First(I)
  <2>1. CASE d.at = 0
        BY <2>1, <1>3, <1>5, <1>8
  <2>2. CASE d.at # 0
        BY <2>2, <1>3, <1>5, <1>8, FirstFound
  <2>. QED  BY <2>1, <2>2
<1>. QED  BY <1>3, <1>5, <1>8, <1>9 DEF A, I, m

LEMMA ChoiceRight ==
    ASSUME NEW n \in Nat, NEW u \in User, NEW v, Correct(n, v, u), NEW c \in Choice,
           NEW k, Sound(n, Depends(c), k, v, u), c \in k.valid, c \in k.on
    PROVE  \E f : /\ CalcChoice(Calc(u), c, k, u) = Chosen(c, f)
                  /\ Leads(None, k, f.cache, v, u) /\ Sound(n, Depends(c), f.cache, v, u)
                  /\ f.to = (IF Possible(c, v, u) = {} THEN None ELSE Picked(c, v, u))
                  /\ f.to \in In(c) \cup {None}
<1> DEFINE g == Calc(u)
           A == Depends(c)
           I == Possible(c, v, u)
           m == Len(Candidates(c, u))
           cand(i) == Candidates(c, u)[i]
<1>1. c \in All /\ Closed(A) /\ A \in SUBSET All /\ None \notin A /\ None \notin All
      BY DependsClosed, NobodyIn DEF All
<1>2. /\ m \in Nat
      /\ \A i \in 1..m : /\ cand(i).to \in In(c) /\ cand(i).to \in All /\ cand(i).to # None
                         /\ Mentions(cand(i).when) \subseteq A
                         /\ Mentions(Prompt[cand(i).to]) \subseteq A
                         /\ i \in I <=> /\ Holds(cand(i).when, v)
                                        /\ Holds(Prompt[cand(i).to], v)
  <2>1. \A i \in 1..m : cand(i).when \in Whens(c)
        BY CandidatesIn
  <2>. QED  BY <2>1, <1>1, CandidatesKnown, DependsFacts DEF Possible
<1>3. I \in SUBSET (1..m) /\ I \in SUBSET Nat
      BY CandidatesKnown DEF Possible
<1>4. k \in Cache
      BY DEF Sound, Near
<1>5. PICK f : Chooses(f, g, c, k, u) /\ CalcChoice(g, c, k, u) = Chosen(c, f[m])
  <2>1. Alike(g, g, Cache)
        BY CalcWorks
  <2>. HIDE DEF g
  <2>. QED  BY <2>1, <1>4, ChoiceInTurn
<1>6. f[0] = [to |-> None, cache |-> k] /\ \A i \in 1..m : f[i] = TryCandidate(g, c, i, f[i - 1], u)
      BY <1>5 DEF Chooses
<1>. HIDE DEF A, I, m, cand
<1> DEFINE Got(i) == /\ Leads(None, k, f[i].cache, v, u)
                     /\ Sound(n, A, f[i].cache, v, u)
                     /\ IF f[i].to = None THEN \A j \in 1..i : j \notin I
                        ELSE \E j \in I : f[i].to = cand(j).to /\ \A l \in I : j <= l
           Good == {i \in Nat : i <= m => Got(i)}
<1>7. 0 \in Good
  <2>1. Leads(None, k, k, v, u) /\ Sound(n, A, k, v, u)
        BY <1>4, LeadsNowhere DEF A
  <2>. QED  BY <2>1, <1>6
<1>8. ASSUME NEW i \in Nat, i \in Good
      PROVE  i + 1 \in Good
  <2>. SUFFICES ASSUME i + 1 <= m
                PROVE  Got(i + 1)
       OBVIOUS
  <2> DEFINE j == i + 1
             x == f[i].cache
             S == Mentions(cand(j).when)
             t == AskAll(g, S, x)
             to == cand(j).to
             w == CalcVisibility(g, to, t)
  <2>1. j \in 1..m /\ j - 1 = i /\ i <= m
        BY <1>2
  <2>2. Got(i)
        BY <1>8, <2>1
  <2>3. S \in SUBSET All /\ S \subseteq A /\ S \cap A = S
        BY <1>1, <1>2, <2>1
  <2>4. to \in In(c) /\ to \in All /\ to # None /\ Mentions(Prompt[to]) \subseteq A
        BY <1>2, <2>1
  <2>5. j \in I <=> Holds(cand(j).when, v) /\ Holds(Prompt[to], v)
        BY <1>2, <2>1
  <2>6. f[j] = TryCandidate(g, c, j, f[i], u)
        BY <1>6, <2>1
  <2>7. f[j] = IF f[i].to # None THEN f[i]
               ELSE IF ~Holds(cand(j).when, t.on) THEN [to |-> None, cache |-> t]
               ELSE [to |-> IF Visible(to, w.on) THEN to ELSE None, cache |-> w]
        BY <2>6 DEF TryCandidate, cand
  <2>. HIDE DEF j, S, x
  <2>8. /\ Leads(None, x, t, v, u) /\ Sound(n, A, t, v, u)
        /\ Agree(t.on, v, S)
    <3>1. S \in SUBSET All /\ S \subseteq A \cup x.valid /\ S \cap A = S
          BY <2>3
    <3>2. Sound(n, A, x, v, u)
          BY <2>2 DEF x
    <3>3. n \in Nat /\ u \in User /\ Correct(n, v, u) /\ Closed(A)
          BY <1>1
    <3>4. /\ Leads(None, x, AskAll(Calc(u), S, x), v, u)
          /\ Sound(n, A, AskAll(Calc(u), S, x), v, u)
          /\ Agree(AskAll(Calc(u), S, x).on, v, S \cap A)
          BY ONLY <3>1, <3>2, <3>3, AskRight
    <3>. QED  BY <3>1, <3>4
  <2>9. Leads(None, k, x, v, u)
        BY <2>2 DEF x
  <2>. HIDE DEF t, to
  <2>10. Leads(None, k, t, v, u)
        BY ONLY <1>1, <2>8, <2>9, LeadsOn
  <2>11. Holds(cand(j).when, t.on) <=> Holds(cand(j).when, v)
        BY <2>8, HoldsLocal DEF S
  <2>12. c \in t.valid
        BY <2>10 DEF Leads
  <2>13. /\ to \notin Plain /\ to \in Member /\ ChoiceOf(to) = c
        BY <2>4, OfChoice
  <2>14. /\ Leads(None, t, w, v, u) /\ Sound(n, A, w, v, u)
         /\ Holds(Prompt[to], w.on) <=> Holds(Prompt[to], v)
    <3>1. Asked(to) \subseteq A \cup t.valid
          BY <2>4, <2>12, <2>13 DEF Asked
    <3>2. w = CalcVisibility(Calc(u), to, t)
          OBVIOUS
    <3>3. n \in Nat /\ u \in User /\ Correct(n, v, u) /\ Closed(A) /\ Sound(n, A, t, v, u)
          /\ to \in All /\ Mentions(Prompt[to]) \subseteq A
          /\ (to \in Plain => Mentions(Select[to]) \subseteq A)
          BY <1>1, <2>4, <2>8, <2>13
    <3>. HIDE DEF w
    <3>. QED  BY ONLY <3>1, <3>2, <3>3, VisibilityRight
  <2>. HIDE DEF w
  <2>15. Leads(None, k, w, v, u)
        BY ONLY <1>1, <2>10, <2>14, LeadsOn
  <2>16. c \in w.on
    <3>1. Same(k, w, c) /\ c # None
          BY <1>1, <2>15 DEF Leads
    <3>. QED  BY <3>1 DEF Same
  <2>17. Visible(to, w.on) <=> Holds(Prompt[to], v)
        BY <2>13, <2>14, <2>16 DEF Visible
  <2>18. CASE f[i].to # None
        BY <2>2, <2>7, <2>18 DEF j
  <2>19. CASE f[i].to = None /\ j \in I
    <3>1. f[j].to = to /\ f[j].cache = w
          BY <2>5, <2>7, <2>11, <2>17, <2>19
    <3>2. \A l \in 1..i : l \notin I
          BY <2>2, <2>19
    <3>3. \A l \in I : j <= l
          BY <3>2, <1>3 DEF j
    <3>4. Got(j)
          BY <2>4, <2>14, <2>15, <2>19, <3>1, <3>3 DEF to
    <3>. QED  BY <3>4 DEF j
  <2>20. CASE f[i].to = None /\ j \notin I
    <3>1. f[j].to = None /\ (f[j].cache = t \/ f[j].cache = w)
          BY <2>5, <2>7, <2>11, <2>17, <2>20
    <3>2. \A l \in 1..i : l \notin I
          BY <2>2, <2>20
    <3>3. \A l \in 1..j : l \notin I
          BY <3>2, <2>20 DEF j
    <3>4. Got(j)
          BY <2>8, <2>10, <2>14, <2>15, <3>1, <3>3
    <3>. QED  BY <3>4 DEF j
  <2>. QED  BY <2>18, <2>19, <2>20
<1>9. Got(m)
  <2>. HIDE DEF Got
  <2>1. m \in Good
    <3>. HIDE DEF Good
    <3>. QED  BY <1>2, <1>7, <1>8, SetInduction
  <2>. QED  BY <1>2, <2>1
<1>10. /\ f[m].to = IF I = {} THEN None ELSE cand(First(I)).to
       /\ f[m].to \in In(c) \cup {None}
  <2>1. CASE f[m].to = None
    <3>1. I = {}
          BY <2>1, <1>3, <1>9
    <3>. QED  BY <2>1, <3>1
  <2>2. CASE f[m].to # None
    <3>1. PICK j \in I : f[m].to = cand(j).to /\ \A l \in I : j <= l
          BY <2>2, <1>9
    <3>2. First(I) = j
          BY <3>1, <1>3, FirstFound
    <3>. QED  BY <3>1, <3>2, <1>2, <1>3
  <2>. QED  BY <2>1, <2>2
<1>. QED  BY <1>5, <1>9, <1>10 DEF A, I, cand, Picked

(* A plain symbol of which only the value and the mark change. *)
LEMMA PlainLeads ==
    ASSUME NEW s \in Plain, NEW k \in Cache, s \in k.valid, NEW v, NEW u,
           NEW lit \in SUBSET All, \A x \in All : x # s => (x \in lit <=> x \in k.on),
           NEW write \in SUBSET Sym, \A x \in Sym : x # s => (x \in write <=> x \in k.write)
    PROVE  Leads(s, k, [k EXCEPT !.on = lit, !.write = write], v, u)
<1> DEFINE r == [k EXCEPT !.on = lit, !.write = write]
<1>1. s \in All /\ r \in Cache
      BY OfPlain, CacheSteps
<1>2. r.valid = k.valid /\ r.on = lit /\ r.write = write /\ r.pick = k.pick
      BY DEF Cache
<1>. HIDE DEF r
<1>3. ASSUME NEW x \in All, x # s
      PROVE  Same(k, r, x)
  <2>1. x \in Plain => x \in Sym
        BY DEF Sym
  <2>2. x \in Choice => \A m \in In(x) : m \in Sym /\ m # s
        BY OfChoice DEF Sym
  <2>. QED  BY <1>2, <1>3, <2>1, <2>2 DEF Same
<1>4. Leads(s, k, r, v, u)
      BY <1>1, <1>2, <1>3, LeadsOwn
<1>. QED  BY <1>4 DEF r

LEMMA PlainRight ==
    ASSUME NEW n \in Nat, NEW u \in User, NEW v, Consistent(v, u), Correct(n, v, u),
           NEW s \in Plain, NEW q, Sound(n, Depends(s), q, v, u), s \in q.valid
    PROVE  /\ Leads(s, q, CalcPlain(Calc(u), s, q, u), v, u)
           /\ Right(CalcPlain(Calc(u), s, q, u), s, v, u)
<1> DEFINE g == Calc(u)
           A == Depends(s)
           t == CalcVisibility(g, s, q)
           clear == [t EXCEPT !.on = @ \ {s}]
           d == Found(g, s, t)
           e == Valued(g, s, d)
           res == CalcPlain(g, s, q, u)
           visible == Visible(s, v)
           selected == Selected(s, v)
<1>1. s \in All /\ s \in Sym /\ Closed(A) /\ s \notin A /\ A \in SUBSET All /\ s # None
      /\ None \notin A /\ None \notin All /\ s \notin Choice
      BY OfPlain, DependsClosed, NobodyIn DEF Sym
<1>2. q \in Cache
      BY DEF Sound, Near
<1>3. res = Settled(s, t, d, e, u)
      BY PlainSettled
<1>4. /\ Leads(None, q, t, v, u) /\ Sound(n, A, t, v, u)
      /\ Visible(s, t.on) <=> visible
      /\ Selected(s, t.on) <=> selected
      BY <1>1, OwnVisibilityRight
<1>5. d = DefaultProp(g, s, clear)
      BY DEF Found
<1>. HIDE DEF t
<1>6. t \in Cache /\ s \in t.valid /\ t.on \in SUBSET All /\ t.write \in SUBSET Sym
      BY <1>4 DEF Leads, Cache
<1>7. clear.on = t.on \ {s} /\ clear.write = t.write /\ clear.valid = t.valid
      BY <1>6 DEF Cache
<1>8. Leads(s, t, clear, v, u)
  <2> DEFINE lit == t.on \ {s}
             write == t.write
  <2>1. clear = [t EXCEPT !.on = lit, !.write = write]
        BY <1>6 DEF Cache
  <2>2. lit \in SUBSET All /\ \A x \in All : x # s => (x \in lit <=> x \in t.on)
        BY <1>6
  <2>3. write \in SUBSET Sym /\ \A x \in Sym : x # s => (x \in write <=> x \in t.write)
        BY <1>6
  <2>. HIDE DEF lit, write, clear
  <2>4. Leads(s, t, [t EXCEPT !.on = lit, !.write = write], v, u)
        BY <1>6, <2>2, <2>3, PlainLeads
  <2>. QED  BY <2>1, <2>4
<1>. HIDE DEF clear
<1>9. Sound(n, A, clear, v, u)
      BY ONLY <1>1, <1>4, <1>8, SoundOn, n \in Nat
<1>10. /\ Leads(None, clear, d.cache, v, u) /\ Sound(n, A, d.cache, v, u)
       /\ IF d.at = 0 THEN Applicable(s, v) = {}
          ELSE /\ d.at \in 1..Len(Default[s])
               /\ Applicable(s, v) # {} /\ d.at = First(Applicable(s, v))
       BY <1>5, <1>9, DefaultRight
<1>. HIDE DEF d
<1>11. /\ Leads(None, clear, e, v, u)
       /\ d.at # 0 => (Holds(Default[s][d.at].value, e.on) <=> Holds(Default[s][d.at].value, v))
  <2>1. CASE d.at = 0
        BY <2>1, <1>10 DEF Valued
  <2>2. CASE d.at # 0
    <3> DEFINE S == Mentions(Default[s][d.at].value)
    <3>1. S \subseteq A
          BY <2>2, <1>1, <1>10, DependsFacts
    <3>2. S \in SUBSET All /\ S \subseteq A \cup d.cache.valid /\ S \cap A = S
          BY <3>1, <1>1
    <3>3. e = AskAll(g, S, d.cache)
          BY <2>2 DEF Valued
    <3>. HIDE DEF S, e
    <3> DEFINE x == d.cache
    <3>. HIDE DEF x
    <3>4. n \in Nat /\ u \in User /\ Correct(n, v, u) /\ Closed(A) /\ Sound(n, A, x, v, u)
          /\ S \in SUBSET All /\ S \subseteq A \cup x.valid /\ S \cap A = S
          /\ e = AskAll(g, S, x)
          BY <1>1, <1>10, <3>2, <3>3 DEF x
    <3>5. Leads(None, x, e, v, u) /\ Agree(e.on, v, S)
      <4>1. /\ Leads(None, x, AskAll(Calc(u), S, x), v, u)
            /\ Agree(AskAll(Calc(u), S, x).on, v, S \cap A)
            BY ONLY <3>4, AskRight
      <4>. QED  BY <3>4, <4>1
    <3>6. Leads(None, clear, x, v, u)
          BY <1>10 DEF x
    <3>7. Leads(None, clear, e, v, u)
          BY ONLY <1>1, <3>5, <3>6, LeadsOn
    <3>. QED  BY <3>5, <3>7, HoldsLocal DEF S
  <2>. QED  BY <2>1, <2>2
<1>. HIDE DEF e
<1>12. e \in Cache /\ s \in e.valid /\ e.on \in SUBSET All /\ e.write \in SUBSET Sym
       BY <1>6, <1>7, <1>11 DEF Leads, Cache
<1>13. s \in clear.valid /\ s \in q.valid
       BY <1>6, <1>7
<1>14. Leads(s, q, clear, v, u)
  <2>1. Leads(s, q, t, v, u)
        BY <1>4, LeadsBut
  <2>. QED  BY ONLY <1>8, <1>13, <2>1, LeadsOn
<1>15. Leads(s, q, e, v, u)
  <2>1. Leads(s, clear, e, v, u)
        BY <1>11, LeadsBut
  <2>. QED  BY ONLY <1>13, <1>14, <2>1, LeadsOn
<1>16. clear \in Cache
       BY <1>8 DEF Leads
<1>17. s \in v <=> PlainOn(s, v, u)
       BY DEF Consistent
<1>18. CASE visible /\ u.def[s] # "new"
  <2> DEFINE lit == Put(clear.on, s, u.def[s] = "y" \/ selected)
             write == clear.write \cup {s}
  <2>1. res = [clear EXCEPT !.on = lit, !.write = write]
        BY <1>3, <1>4, <1>18 DEF Settled, clear
  <2>2. lit \in SUBSET All /\ \A x \in All : x # s => (x \in lit <=> x \in clear.on)
        BY <1>1, <1>6, <1>7 DEF Put
  <2>3. write \in SUBSET Sym /\ \A x \in Sym : x # s => (x \in write <=> x \in clear.write)
        BY <1>1, <1>6, <1>7
  <2>4. (s \in lit <=> u.def[s] = "y" \/ selected) /\ s \in write
        BY DEF Put
  <2>. HIDE DEF lit, write, res, visible, selected
  <2>5. Leads(s, clear, res, v, u)
        BY <1>13, <1>16, <2>1, <2>2, <2>3, PlainLeads
  <2>6. Leads(s, q, res, v, u)
        BY ONLY <1>13, <1>14, <2>5, LeadsOn
  <2>7. res.on = lit /\ res.write = write
        BY <1>16, <2>1 DEF Cache
  <2>8. s \in v <=> u.def[s] = "y" \/ selected
        BY <1>17, <1>18 DEF PlainOn, visible, selected
  <2>9. Right(res, s, v, u)
        BY <1>1, <1>18, <2>4, <2>7, <2>8 DEF Right, visible
  <2>. QED  BY <2>6, <2>9 DEF res
<1>19. CASE ~(visible /\ u.def[s] # "new")
  <2> DEFINE given == d.at # 0 /\ Holds(Default[s][d.at].value, e.on)
             lit == Put(e.on, s, selected \/ given)
             write == Put(e.write, s, visible \/ selected \/ d.at # 0)
  <2>1. res = [e EXCEPT !.on = lit, !.write = write]
        BY <1>3, <1>4, <1>19 DEF Settled
  <2>2. lit \in SUBSET All /\ \A x \in All : x # s => (x \in lit <=> x \in e.on)
        BY <1>1, <1>12 DEF Put
  <2>3. write \in SUBSET Sym /\ \A x \in Sym : x # s => (x \in write <=> x \in e.write)
        BY <1>1, <1>12 DEF Put
  <2>4. /\ s \in lit <=> selected \/ given
        /\ s \in write <=> visible \/ selected \/ d.at # 0
        BY DEF Put
  <2>5. given <=> DefaultOn(s, v)
        BY <1>10, <1>11 DEF DefaultOn
  <2>. HIDE DEF lit, write, res, given, visible, selected
  <2>6. Leads(s, e, res, v, u)
        BY <1>12, <2>1, <2>2, <2>3, PlainLeads
  <2>7. Leads(s, q, res, v, u)
        BY ONLY <1>13, <1>15, <2>6, LeadsOn
  <2>8. res.on = lit /\ res.write = write
        BY <1>12, <2>1 DEF Cache
  <2>9. s \in v <=> selected \/ given
        BY <1>17, <1>19, <2>5 DEF PlainOn, visible, selected
  <2>10. s \in write <=> visible \/ selected \/ Applicable(s, v) # {}
         BY <1>10, <2>4
  <2>11. Right(res, s, v, u)
         BY <1>1, <2>4, <2>8, <2>9, <2>10 DEF Right, visible, selected
  <2>. QED  BY <2>7, <2>11 DEF res
<1>. QED  BY <1>18, <1>19

LEMMA ChosenRight ==
    ASSUME NEW n \in Nat, NEW u \in User, NEW v, Consistent(v, u), Correct(n, v, u),
           NEW s \in Choice, NEW q, Sound(n, Depends(s), q, v, u), s \in q.valid,
           \A m \in In(s) : m \notin q.write
    PROVE  /\ Leads(s, q, Calculate(Calc(u), s, q, u), v, u)
           /\ Right(Calculate(Calc(u), s, q, u), s, v, u)
<1> DEFINE g == Calc(u)
           A == Depends(s)
           t == CalcVisibility(g, s, q)
           res == Calculate(g, s, q, u)
           x == [t EXCEPT !.on = @ \cup {s}, !.write = @ \cup In(s)]
           I == Possible(s, v, u)
<1>1. /\ s \in All /\ s \notin Plain /\ s \notin Member /\ s # None
      /\ Closed(A) /\ s \notin A /\ A \in SUBSET All /\ None \notin A /\ None \notin All
      BY ChoiceAssumption, DependsClosed, NobodyIn DEF All, Sym
<1>2. q \in Cache
      BY DEF Sound, Near
<1>3. res = IF Visible(s, t.on) THEN CalcChoice(g, s, x, u)
            ELSE [t EXCEPT !.on = @ \ {s}, !.pick[s] = None]
      BY <1>1 DEF Calculate
<1>4. /\ Leads(None, q, t, v, u) /\ Sound(n, A, t, v, u)
      /\ Visible(s, t.on) <=> Visible(s, v)
      BY <1>1, OwnVisibilityRight
<1>. HIDE DEF t
<1>5. t \in Cache /\ s \in t.valid /\ t.on \in SUBSET All /\ t.write \in SUBSET Sym /\ t.pick \in Vals
      BY <1>4 DEF Leads, Cache
<1>6. Leads(s, q, t, v, u)
      BY <1>4, LeadsBut
<1>7. \A c \in Choice : c # s => In(c) \cap In(s) = {}
      BY ChoiceAssumption
<1>8. In(s) \subseteq Sym /\ \A c \in Choice : In(c) \subseteq Sym \ Plain
      BY OfChoice DEF Sym
<1>9. /\ s \in v <=> ChoiceOn(s, v, u)
      /\ ChoiceOn(s, v, u) <=> Visible(s, v) /\ I # {}
      BY DEF Consistent, ChoiceOn
<1>10. \A c \in Choice, to \in In(s) \cup {None}, k \in Cache :
           [k.pick EXCEPT ![s] = to][s] = to
           /\ (c # s => [k.pick EXCEPT ![s] = to][c] = k.pick[c])
  <2>1. \A k \in Cache : DOMAIN k.pick = Choice
        BY DEF Cache, Vals
  <2>. QED  BY <2>1
<1>11. CASE Visible(s, v)
  <2> DEFINE lit == t.on \cup {s}
             write == t.write \cup In(s)
  <2>1. lit \in SUBSET All /\ write \in SUBSET Sym
        BY <1>1, <1>5, <1>8
  <2>2. x = [t EXCEPT !.on = lit, !.write = write]
        OBVIOUS
  <2>3. /\ \A y \in All : y # s => (y \in lit <=> y \in t.on)
        /\ \A y \in Plain : y \in write <=> y \in t.write
        /\ \A c \in Choice : c # s => \A m \in In(c) : m \in write <=> m \in t.write
        BY <1>7, <1>8
  <2>4. s \in lit /\ \A m \in In(s) : m \in write
        OBVIOUS
  <2>. HIDE DEF x, lit, write
  <2>5. x \in Cache /\ x.valid = t.valid /\ x.on = lit /\ x.write = write /\ x.pick = t.pick
    <3>1. x \in Cache
          BY <1>5, <2>1, <2>2, CacheSteps
    <3>. QED  BY <3>1, <1>5, <2>2 DEF Cache
  <2>6. \A y \in All : y # s => Same(t, x, y)
        BY <2>3, <2>5 DEF Same
  <2>7. Leads(s, t, x, v, u)
        BY <1>1, <1>5, <2>5, <2>6, LeadsOwn
  <2>8. Leads(s, q, x, v, u)
        BY ONLY s \in q.valid, <1>6, <2>7, LeadsOn
  <2>9. Sound(n, A, x, v, u)
        BY ONLY <1>1, <1>4, <2>7, SoundOn, n \in Nat
  <2>10. s \in x.valid /\ s \in x.on
         BY <1>5, <2>4, <2>5
  <2>11. PICK f : /\ CalcChoice(g, s, x, u) = Chosen(s, f)
                  /\ Leads(None, x, f.cache, v, u)
                  /\ f.to = (IF I = {} THEN None ELSE Picked(s, v, u))
                  /\ f.to \in In(s) \cup {None}
         BY <2>9, <2>10, ChoiceRight
  <2> DEFINE k == f.cache
             to == f.to
             o == IF to = None THEN k.on \ {s} ELSE k.on
  <2>12. Leads(None, x, k, v, u) /\ to \in In(s) \cup {None}
         /\ to = (IF I = {} THEN None ELSE Picked(s, v, u))
         BY <2>11
  <2>13. res = [k EXCEPT !.pick[s] = to, !.on = o]
         BY <1>3, <1>4, <1>11, <2>11 DEF Chosen
  <2>. HIDE DEF k, to, res
  <2>14. k \in Cache /\ s \in k.valid /\ k.on \in SUBSET All
         BY <2>10, <2>12 DEF Leads, Cache
  <2>15. o \in SUBSET All /\ \A y \in All : y # s => (y \in o <=> y \in k.on)
         BY <2>14
  <2>16. to = None => s \notin o
         OBVIOUS
  <2>17. to # None => o = k.on
         OBVIOUS
  <2>. HIDE DEF o
  <2>18. /\ res \in Cache /\ res.valid = k.valid /\ res.on = o /\ res.write = k.write
         /\ res.pick = [k.pick EXCEPT ![s] = to]
    <3>1. to \in Member \cup {None}
          BY <2>12, OfChoice
    <3>2. res \in Cache
          BY <2>12, <2>13, <2>14, <2>15, <3>1, CacheSteps
    <3>. QED  BY <3>2, <2>13, <2>14 DEF Cache
  <2>19. res.pick[s] = to /\ \A c \in Choice : c # s => res.pick[c] = k.pick[c]
         BY <1>10, <2>12, <2>14, <2>18
  <2>20. \A y \in All : y # s => Same(k, res, y)
         BY <2>15, <2>18, <2>19 DEF Same
  <2>21. Leads(s, k, res, v, u)
         BY <1>1, <2>14, <2>18, <2>20, LeadsOwn
  <2>22. Leads(s, x, k, v, u)
         BY <2>12, LeadsBut
  <2>23. Leads(s, q, k, v, u)
         BY ONLY <2>8, <2>10, <2>22, s \in q.valid, LeadsOn
  <2>24. Leads(s, q, res, v, u)
         BY ONLY <2>21, <2>23, s \in q.valid, LeadsOn
  <2>25. Same(x, k, s)
         BY <1>1, <2>10, <2>12 DEF Leads
  <2>26. s \in k.on /\ \A m \in In(s) : m \in k.write
         BY <2>4, <2>5, <2>10, <2>25 DEF Same
  <2>27. I # {} => Picked(s, v, u) # None
    <3>1. None \notin In(s)
          BY <1>1, OfChoice DEF All, Sym
    <3>. QED  BY <3>1, PossibleIffOpen
  <2>28. s \in res.on <=> s \in v
         BY <1>9, <1>11, <2>12, <2>16, <2>17, <2>18, <2>26, <2>27
  <2>29. res.pick[s] = IF s \in v THEN Picked(s, v, u) ELSE None
         BY <1>9, <1>11, <2>12, <2>19
  <2>30. Right(res, s, v, u)
         BY <1>1, <1>11, <2>18, <2>26, <2>28, <2>29 DEF Right
  <2>. QED  BY <2>24, <2>30 DEF res
<1>12. CASE ~Visible(s, v)
  <2> DEFINE o == t.on \ {s}
  <2>1. res = [t EXCEPT !.on = o, !.pick[s] = None]
        BY <1>3, <1>4, <1>12
  <2>2. o \in SUBSET All /\ s \notin o /\ \A y \in All : y # s => (y \in o <=> y \in t.on)
        BY <1>5
  <2>. HIDE DEF o, res
  <2>3. /\ res \in Cache /\ res.valid = t.valid /\ res.on = o /\ res.write = t.write
        /\ res.pick = [t.pick EXCEPT ![s] = None]
    <3>1. None \in Member \cup {None} /\ None \in In(s) \cup {None}
          OBVIOUS
    <3>2. res \in Cache
          BY <1>5, <2>1, <2>2, <3>1, CacheSteps
    <3>. QED  BY <3>2, <1>5, <2>1 DEF Cache
  <2>4. res.pick[s] = None /\ \A c \in Choice : c # s => res.pick[c] = t.pick[c]
    <3>1. None \in In(s) \cup {None}
          OBVIOUS
    <3>. QED  BY <3>1, <1>5, <1>10, <2>3
  <2>5. \A y \in All : y # s => Same(t, res, y)
        BY <2>2, <2>3, <2>4 DEF Same
  <2>6. Leads(s, t, res, v, u)
        BY <1>1, <1>5, <2>3, <2>5, LeadsOwn
  <2>7. Leads(s, q, res, v, u)
        BY ONLY s \in q.valid, <1>6, <2>6, LeadsOn
  <2>8. Same(q, t, s)
        BY <1>1, <1>4 DEF Leads
  <2>9. \A m \in In(s) : m \notin t.write
        BY <2>8 DEF Same
  <2>10. Right(res, s, v, u)
         BY <1>1, <1>9, <1>12, <2>2, <2>3, <2>4, <2>9 DEF Right
  <2>. QED  BY <2>7, <2>10 DEF res
<1>. QED  BY <1>11, <1>12

LEMMA MemberRight ==
    ASSUME NEW n \in Nat, NEW u \in User, NEW v, Consistent(v, u), Correct(n, v, u),
           NEW s \in Member, NEW q, Sound(n, Depends(s), q, v, u), s \in q.valid
    PROVE  /\ Leads(s, q, Calculate(Calc(u), s, q, u), v, u)
           /\ Right(Calculate(Calc(u), s, q, u), s, v, u)
<1> DEFINE g == Calc(u)
           c == ChoiceOf(s)
           t == CalcVisibility(g, s, q)
           res == Calculate(g, s, q, u)
           lit == Put(t.on, s, Visible(s, t.on) /\ t.pick[c] = s)
<1>1. s \in All /\ s \notin Plain /\ s \notin Choice
      BY ChoiceAssumption DEF All, Sym
<1>2. c \in Choice /\ s \in In(c)
      BY <1>1, AskedForKnown
<1>3. res = [t EXCEPT !.on = lit]
      BY <1>1 DEF Calculate
<1>4. /\ Leads(None, q, t, v, u)
      /\ Visible(s, t.on) <=> Visible(s, v)
      /\ Right(t, c, v, u)
      BY <1>1, OwnVisibilityRight
<1>. HIDE DEF t, c
<1>5. t \in Cache /\ s \in t.valid /\ t.on \in SUBSET All
      BY <1>4 DEF Leads, Cache
<1>6. Leads(s, q, t, v, u)
      BY <1>4, LeadsBut
<1>7. lit \in SUBSET All /\ \A y \in All : y # s => (y \in lit <=> y \in t.on)
      BY <1>1, <1>5 DEF Put
<1>8. s \in lit <=> Visible(s, v) /\ t.pick[c] = s
      BY <1>4 DEF Put
<1>. HIDE DEF lit, res
<1>9. res \in Cache /\ res.valid = t.valid /\ res.on = lit /\ res.write = t.write /\ res.pick = t.pick
  <2>1. res \in Cache
        BY <1>3, <1>5, <1>7, CacheSteps
  <2>. QED  BY <2>1, <1>3, <1>5 DEF Cache
<1>10. \A y \in All : y # s => Same(t, res, y)
       BY <1>7, <1>9 DEF Same
<1>11. Leads(s, t, res, v, u)
       BY <1>1, <1>5, <1>9, <1>10, LeadsOwn
<1>12. Leads(s, q, res, v, u)
       BY ONLY s \in q.valid, <1>6, <1>11, LeadsOn
<1>13. t.pick[c] = s <=> c \in v /\ s = Picked(c, v, u)
  <2>1. t.pick[c] = IF c \in v THEN Picked(c, v, u) ELSE None
        BY <1>2, <1>4 DEF Right
  <2>2. s # None
        BY <1>1, NobodyIn
  <2>. QED  BY <2>1, <2>2
<1>14. s \in v <=> c \in v /\ s = Picked(c, v, u)
  <2>1. (s \in v <=> MemberOn(c, s, v, u)) /\ (c \in v <=> ChoiceOn(c, v, u))
        BY <1>2 DEF Consistent
  <2>. QED  BY <2>1 DEF MemberOn
<1>15. c \in v /\ s = Picked(c, v, u) => Visible(s, v)
  <2>1. c \in v => Possible(c, v, u) # {}
        BY <1>2 DEF Consistent, ChoiceOn
  <2>2. c \in v => Holds(Prompt[Picked(c, v, u)], v)
        BY <1>2, <2>1, PossibleIffOpen
  <2>. QED  BY <2>2 DEF Visible, c
<1>16. s \in res.on <=> s \in v
       BY <1>8, <1>9, <1>13, <1>14, <1>15
<1>17. Right(res, s, v, u)
       BY <1>1, <1>16 DEF Right
<1>. QED  BY <1>12, <1>17 DEF res

LEMMA CalculateRight ==
    ASSUME NEW n \in Nat, NEW u \in User, NEW v, Consistent(v, u), Correct(n, v, u),
           NEW s \in All, NEW q, Sound(n, Depends(s), q, v, u), s \in q.valid,
           s \in Choice => \A m \in In(s) : m \notin q.write
    PROVE  /\ Leads(s, q, Calculate(Calc(u), s, q, u), v, u)
           /\ Right(Calculate(Calc(u), s, q, u), s, v, u)
<1>1. CASE s \in Plain
  <2>1. Calculate(Calc(u), s, q, u) = CalcPlain(Calc(u), s, q, u)
        BY <1>1, OfPlain, ChoiceAssumption DEF Calculate, Sym
  <2>. QED  BY <1>1, <2>1, PlainRight
<1>2. CASE s \in Choice
      BY <1>2, ChosenRight
<1>3. CASE s \in Member
      BY <1>3, MemberRight
<1>. QED  BY <1>1, <1>2, <1>3 DEF All, Sym

LEMMA OnceRight ==
    ASSUME NEW n \in Nat, NEW u \in User, NEW v, Consistent(v, u), Correct(n, v, u),
           NEW A, Closed(A), NEW k, Sound(n + 1, A, k, v, u), NEW s \in A
    PROVE  Leads(None, k, Calc(u)[s][k], v, u)
<1>1. s \in All /\ Depends(s) \subseteq A
      BY DEF Closed
<1>2. k \in Near(n + 1) /\ k \in Cache
      BY DEF Sound, Near
<1>3. Calc(u)[s][k] = CalcOnce(Calc(u), s, k, u)
      BY <1>1, <1>2, CalcWorks
<1>4. CASE s \in k.valid
  <2>1. Calc(u)[s][k] = k
        BY <1>3, <1>4 DEF CalcOnce
  <2>. QED  BY <1>2, <2>1, LeadsNowhere
<1>5. CASE s \notin k.valid
  <2> DEFINE q == [k EXCEPT !.valid = @ \cup {s}]
             r == Calculate(Calc(u), s, q, u)
  <2>1. Calc(u)[s][k] = r
        BY <1>3, <1>5 DEF CalcOnce
  <2>2. q \in Near(n)
        BY <1>1, <1>2, <1>5, NearFacts
  <2>3. q.valid = k.valid \cup {s} /\ q.on = k.on /\ q.pick = k.pick /\ q.write = k.write
        BY <1>2 DEF Cache
  <2>. HIDE DEF q
  <2>4. Unmarked(q)
        BY <2>3 DEF Sound, Unmarked
  <2>5. s \in Choice => \A m \in In(s) : m \notin q.write
        BY <1>5, <2>3 DEF Sound, Unmarked
  <2>6. Fine(Depends(s), q, v, u)
    <3>. SUFFICES ASSUME NEW x \in Depends(s), x \in q.valid
                  PROVE  Right(q, x, v, u)
         BY DEF Fine
    <3>1. x \in A /\ x # s
          BY <1>1, DependsClosed
    <3>2. Right(k, x, v, u)
          BY <2>3, <3>1 DEF Sound, Fine
    <3>3. Same(k, q, x)
          BY <2>3 DEF Same
    <3>. QED  BY <3>2, <3>3, SameRight
  <2>7. Sound(n, Depends(s), q, v, u)
        BY <2>2, <2>4, <2>6 DEF Sound
  <2>8. s \in q.valid
        BY <2>3
  <2>9. Leads(s, q, r, v, u) /\ Right(r, s, v, u)
        BY <1>1, <2>5, <2>7, <2>8, CalculateRight
  <2>. HIDE DEF r
  <2>10. r \in Cache /\ k.valid \subseteq r.valid
         BY <2>3, <2>9 DEF Leads
  <2>11. ASSUME NEW x \in All, x \in k.valid
         PROVE  Same(k, r, x)
    <3>1. x \in q.valid /\ x # s
          BY <1>5, <2>3, <2>11
    <3>2. Same(q, r, x)
          BY <2>9, <3>1 DEF Leads
    <3>. QED  BY <2>3, <3>2 DEF Same
  <2>12. ASSUME NEW x \in All, x \in r.valid, x \notin k.valid
         PROVE  Right(r, x, v, u)
    <3>1. CASE x = s
          BY <2>9, <3>1
    <3>2. CASE x # s
      <4>1. x \notin q.valid
            BY <2>3, <2>12, <3>2
      <4>. QED  BY <2>9, <2>12, <4>1 DEF Leads
    <3>. QED  BY <3>1, <3>2
  <2>13. \A c \in Choice : c \notin r.valid => \A m \in In(c) : m \in k.write <=> m \in r.write
         BY <2>3, <2>9 DEF Leads
  <2>14. Leads(None, k, r, v, u)
         BY <2>10, <2>11, <2>12, <2>13 DEF Leads
  <2>. QED  BY <2>1, <2>14
<1>. QED  BY <1>4, <1>5

(* Whatever is asked for comes out right. *)
LEMMA AllCorrect ==
    ASSUME NEW u \in User, NEW v, Consistent(v, u)
    PROVE  Correct(Cardinality(All), v, u)
<1> DEFINE Good == {n \in Nat : Correct(n, v, u)}
<1>1. 0 \in Good
  <2>. SUFFICES ASSUME NEW A, Closed(A), NEW k, Sound(0, A, k, v, u), NEW s \in A
                PROVE  Leads(None, k, Calc(u)[s][k], v, u)
       BY DEF Correct
  <2>1. s \in All /\ k \in Near(0) /\ k \in Cache
        BY DEF Closed, Sound, Near
  <2>2. s \in k.valid
        BY <2>1, NearFacts
  <2>3. Calc(u)[s][k] = k
        BY <2>1, <2>2, CalcWorks DEF CalcOnce
  <2>. QED  BY <2>1, <2>3, LeadsNowhere
<1>2. ASSUME NEW n \in Nat, n \in Good
      PROVE  n + 1 \in Good
  <2>1. Correct(n + 1, v, u)
        BY <1>2, OnceRight DEF Correct
  <2>. QED  BY <2>1
<1>. HIDE DEF Good
<1>3. Cardinality(All) \in Good
      BY <1>1, <1>2, SetInduction, NearFacts
<1>. QED  BY <1>3 DEF Good

(* Once all symbols were asked for, one of them first, they have the       *)
(* values and the marks that Menu says.                                    *)
LEMMA CalculatedAll ==
    ASSUME NEW u \in User, NEW v \in SUBSET All, Consistent(v, u),
           NEW k \in Cache, k.valid = {}, k.write = {}, NEW s \in All
    PROVE  /\ CalcAll(All, CalcValue(s, k, u), u).on = v
           /\ CalcAll(All, CalcValue(s, k, u), u).write = Written(v)
<1> DEFINE n == Cardinality(All)
           a == CalcValue(s, k, u)
           t == CalcAll(All, a, u)
<1>1. n \in Nat /\ Correct(n, v, u) /\ None \notin All /\ All \in SUBSET All
      BY AllCorrect, NearFacts, NobodyIn
<1>2. Closed(All)
  <2>1. \A x \in All : Depends(x) \subseteq All
        BY DependsClosed DEF Closed
  <2>. QED  BY <2>1 DEF Closed
<1>3. Sound(n, All, k, v, u)
      BY NearFacts DEF Sound, Unmarked, Fine
<1>4. Leads(None, k, a, v, u)
      BY <1>1, <1>2, <1>3 DEF Correct, CalcValue
<1>. HIDE DEF a, n
<1>5. Sound(n, All, a, v, u)
      BY <1>1, <1>3, <1>4, SoundOn
<1>6. \A x \in All : Right(t, x, v, u)
  <2>1. All \subseteq All \cup a.valid /\ All \cap All = All
        OBVIOUS
  <2>2. \A x \in All \cap All : Right(AskAll(Calc(u), All, a), x, v, u)
        BY ONLY <1>1, <1>2, <1>5, <2>1, AskRight, u \in User
  <2>. QED  BY <2>1, <2>2 DEF CalcAll
<1>7. t \in Cache
  <2>1. Leads(None, a, AskAll(Calc(u), All, a), v, u)
        BY <1>1, <1>2, <1>5, AskRight
  <2>. QED  BY <2>1 DEF Leads, CalcAll
<1>. HIDE DEF t
<1>8. t.on \in SUBSET All /\ t.write \in SUBSET Sym
      BY <1>7 DEF Cache
<1>9. t.on = v
      BY <1>6, <1>8 DEF Right
<1>10. t.write = Written(v)
  <2>1. ASSUME NEW x \in Plain
        PROVE  x \in t.write <=> x \in Written(v)
    <3>1. x \in All /\ x \notin Member
          BY OfPlain, ChoiceAssumption DEF Sym
    <3>2. x \notin ChoiceWritten(v)
          BY <3>1 DEF ChoiceWritten, Member
    <3>3. Right(t, x, v, u)
          BY <3>1, <1>6
    <3>. QED  BY <3>2, <3>3 DEF Right, Written
  <2>2. ASSUME NEW x \in Member
        PROVE  x \in t.write <=> x \in Written(v)
    <3>1. PICK c \in Choice : x \in In(c)
          BY <2>2 DEF Member
    <3>2. c \in All /\ x \notin Plain /\ \A d \in Choice : x \in In(d) => d = c
          BY <3>1, OfChoice DEF All
    <3>3. Right(t, c, v, u)
          BY <3>2, <1>6
    <3>4. x \in t.write <=> Visible(c, v)
          BY <3>1, <3>3 DEF Right
    <3>5. x \in ChoiceWritten(v) <=> Visible(c, v)
          BY <3>1, <3>2 DEF ChoiceWritten
    <3>. QED  BY <3>2, <3>4, <3>5 DEF Written
  <2>3. \A x \in t.write \cup Written(v) : x \in Plain \cup Member
        BY <1>8 DEF Sym, Written, ChoiceWritten, Member
  <2>. QED  BY <2>1, <2>2, <2>3
<1>. QED  BY <1>9, <1>10 DEF t, a

(* sym_calc_value is right of every menu that sym_check_deps accepts and   *)
(* of everything that can be set: whatever symbol is asked for first, and  *)
(* whatever values and choices are left from before, all symbols get the   *)
(* values Menu describes, and SYMBOL_WRITE goes to those that conf_write   *)
(* makes a line of.                                                        *)
THEOREM CalculatedRight ==
    \A u \in User, k \in Cache, s \in All :
        k.valid = {} /\ k.write = {} =>
            LET t == CalcAll(All, CalcValue(s, k, u), u)
            IN  t.on = ValueOf(u) /\ t.write = Written(ValueOf(u))
<1>. SUFFICES ASSUME NEW u \in User, NEW k \in Cache, NEW s \in All, k.valid = {}, k.write = {}
              PROVE  /\ CalcAll(All, CalcValue(s, k, u), u).on = ValueOf(u)
                     /\ CalcAll(All, CalcValue(s, k, u), u).write = Written(ValueOf(u))
     OBVIOUS
<1>1. ValueOf(u) \in SUBSET All /\ Consistent(ValueOf(u), u)
      BY ValueOfSolves
<1>. QED  BY <1>1, CalculatedAll

(* The values the programs show are the ones sym_calc_value gives, in      *)
(* every state of a session.                                               *)
THEOREM CalculationAgrees == Spec => []CalcAgrees
<1>1. IInv => CalcAgrees
  <2>. SUFFICES ASSUME IInv, prog = "edit", NEW s \in All, NEW before \in {{}, All},
                       NEW k, k = [on |-> before, pick |-> NoUser.val, valid |-> {}, write |-> {}]
                PROVE  /\ CalcAll(All, CalcValue(s, k, user), user).on = on
                       /\ CalcAll(All, CalcValue(s, k, user), user).write = Written(on)
       BY DEF CalcAgrees
  <2>1. user \in User /\ on \in SUBSET All /\ Consistent(on, user)
        BY DEF IInv, TypeOK, Fresh
  <2>2. k \in Cache /\ k.valid = {} /\ k.write = {}
    <3>1. NoUser.val \in Vals
          BY NoUserType DEF User
    <3>. QED  BY <3>1 DEF Cache
  <2>. QED  BY <2>1, <2>2, CalculatedAll
<1>. QED  BY <1>1, Invariant, PTL
=============================================================================
