-------------------------- MODULE ImageStoreProofs --------------------------
(***************************************************************************)
(* That the steps of ImageStore amount to its promise.                     *)
(***************************************************************************)
EXTENDS ImageStore, TLAPS

DrawnAreOfRun ==
    /\ wanted \subseteq Image
    /\ product = [i \in Image |-> product[i]]
    /\ phase \in {"making", "done"} => \A i \in made \cap wanted : product[i] = run
    /\ phase = "done" => wanted \subseteq made

(* A make that ended well drew every image it was asked for. *)
THEOREM StoreKept == Spec => []DoneMeansDrawn
  <1>1. Init => DrawnAreOfRun
    BY DEF Init, DrawnAreOfRun
  <1>2. DrawnAreOfRun /\ [Next]_vars => DrawnAreOfRun'
    <2> SUFFICES ASSUME DrawnAreOfRun, [Next]_vars PROVE DrawnAreOfRun'
      OBVIOUS
    <2> USE DEF DrawnAreOfRun
    <2>1. CASE Ask
      BY <2>1 DEF Ask
    <2>2. ASSUME NEW i \in Image, Draw(i) PROVE DrawnAreOfRun'
      BY <2>2 DEF Draw
    <2>3. CASE Finish
      BY <2>3 DEF Finish
    <2>4. CASE Fail
      BY <2>4 DEF Fail
    <2>5. CASE Leave
      BY <2>5 DEF Leave
    <2>6. CASE UNCHANGED vars
      BY <2>6 DEF vars
    <2> QED BY <2>1, <2>2, <2>3, <2>4, <2>5, <2>6 DEF Next
  <1>3. DrawnAreOfRun => DoneMeansDrawn
    BY DEF DrawnAreOfRun, DoneMeansDrawn
  <1> QED BY <1>1, <1>2, <1>3, PTL DEF Spec
=============================================================================
