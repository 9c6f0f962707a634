------------------------------ MODULE MediaShelf ------------------------------
(***************************************************************************)
(* What the media store promises, without objects, writes, claims or       *)
(* collectors: an uploaded asset is put on the shelf whole, is there as    *)
(* long as something refers to it, is taken away at once with its last     *)
(* reference, and never comes back.                                        *)
(***************************************************************************)
CONSTANTS Assets, Targets  \* media ids; what may refer to them

VARIABLES
  place,    \* where an asset is: "new", "reserved", "shelf" or "lost"
  told,     \* the assets that clients know the ids of
  links,    \* <<asset, target>>: what a target shows
  retained  \* <<asset, target>>: what its old revisions show

shelfVars == <<place, told, links, retained>>

Init ==
  /\ place = [a \in Assets |-> "new"]
  /\ told = {} /\ links = {} /\ retained = {}

Shown(L, R) == {r[1] : r \in L \cup R}
At(p) == {a \in Assets : place[a] = p}
Goes(A, p) == place' = [a \in Assets |-> IF a \in A THEN p ELSE place[a]]

Reserve(A) ==
  /\ A # {} /\ A \subseteq At("new")
  /\ Goes(A, "reserved")
  /\ UNCHANGED <<told, links, retained>>

\* An upload is answered with its ids or fails, which may leave some of it behind.
Put(A, answered) ==
  /\ A \subseteq At("reserved")
  /\ Goes(A, "shelf")
  /\ told' = IF answered THEN told \cup A ELSE told
  /\ UNCHANGED <<links, retained>>

\* A target shows A from now on, and these are all the references there are then.
Refer(t, A, L, R) ==
  /\ A \subseteq At("shelf") \cap told
  /\ A \X {t} \subseteq L
  /\ L \subseteq links \cup (A \X {t}) /\ R \subseteq retained \cup (A \X {t})
  /\ \A r \in (links \ L) \cup (retained \ R) : r[2] = t
  /\ links' = L /\ retained' = R
  /\ Goes(Shown(links, retained) \ Shown(L, R), "lost")
  /\ UNCHANGED told

\* What nothing refers to may be taken away at any time.
Lose(A) ==
  /\ A # {} /\ A \subseteq (At("reserved") \cup At("shelf")) \ Shown(links, retained)
  /\ Goes(A, "lost")
  /\ UNCHANGED <<told, links, retained>>

Next ==
  \E A \in SUBSET Assets :
    \/ Reserve(A) \/ Lose(A) \/ \E answered \in BOOLEAN : Put(A, answered)
    \/ \E t \in Targets :
         \E L \in SUBSET (links \cup (A \X {t})), R \in SUBSET (retained \cup (A \X {t})) :
           Refer(t, A, L, R)

Spec == Init /\ [][Next]_shelfVars
==============================================================================
