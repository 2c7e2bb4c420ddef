----------------------------- MODULE ImageStore -----------------------------
(***************************************************************************)
(* What a make promises of the images directory: a make that ends well has *)
(* drawn every image it was asked for, itself and from beginning to end.   *)
(* A make that fails leaves any of them broken or of an earlier make.      *)
(* RootFs is the detailed form.                                            *)
(***************************************************************************)
EXTENDS Integers

CONSTANT Image

VARIABLES
    phase,      \* "making", "done", or "rest"
    wanted,     \* the images asked for
    run,        \* the number of the current or last command
    product,    \* the number of the make an image is of, Absent or Broken
    made        \* the images drawn by the current make

vars == <<phase, wanted, run, product, made>>

Absent == 0
Broken == -1

Init ==
    /\ phase = "rest" /\ run = 0 /\ made = {}
    /\ wanted \subseteq Image
    /\ product = [i \in Image |-> Absent]

Ask ==
    /\ phase # "making" /\ phase' = "making"
    /\ run' = run + 1 /\ made' = {}
    /\ UNCHANGED <<wanted, product>>

Draw(i) ==
    /\ phase = "making" /\ i \in wanted
    /\ product' = [product EXCEPT ![i] = run]
    /\ made' = made \cup {i}
    /\ UNCHANGED <<phase, wanted, run>>

Finish ==
    /\ phase = "making" /\ wanted \subseteq made
    /\ phase' = "done"
    /\ UNCHANGED <<wanted, run, product, made>>

Fail ==
    /\ phase = "making" /\ phase' = "rest"
    /\ product' \in {product} \cup {[product EXCEPT ![i] = Broken] : i \in wanted}
    /\ UNCHANGED <<wanted, run, made>>

(* Between makes the developer chooses other images, or throws all away. *)
Leave ==
    /\ phase # "making" /\ phase' = "rest"
    /\ wanted' \subseteq Image
    /\ run' \in {run, run + 1}
    /\ product' \in {product, [i \in Image |-> Absent]}
    /\ made' \subseteq Image

Next == Ask \/ (\E i \in Image : Draw(i)) \/ Finish \/ Fail \/ Leave

Spec == Init /\ [][Next]_vars

(* A make that ended well drew every image it was asked for. *)
DoneMeansDrawn == phase = "done" => \A i \in wanted : product[i] = run
=============================================================================
