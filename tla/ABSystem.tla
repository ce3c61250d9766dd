------------------------------ MODULE ABSystem ------------------------------
(***************************************************************************)
(* What the A/B scheme promises, without boot loader variables, installer  *)
(* steps or processes.  Each slot has some automatic starts left.  Only    *)
(* the slot that is not running is ever rewritten, and only while it has   *)
(* no start left; it gets its starts back when a whole image is committed, *)
(* when it runs to satisfaction, or when the user chooses it.              *)
(***************************************************************************)
EXTENDS Naturals

CONSTANTS Version, Torn

VARIABLES
  running,  \* the slot that runs, "none" while the machine does not
  armed,    \* the slot whose start was just paid for
  first,    \* the slot that is preferred
  lives,    \* automatic starts each slot has left
  content   \* the image in each slot

abVars == <<running, armed, first, lives, content>>

ASlot == {"a", "b"}
Opposite(s) == IF s = "a" THEN "b" ELSE "a"
MaxLives == 3

InitAB ==
  /\ running = "none" /\ armed = "none"
  /\ first \in ASlot
  /\ lives = [s \in ASlot |-> MaxLives]
  /\ \E v \in Version : content = [s \in ASlot |-> v]

(* An automatic start is paid for before it happens.                       *)
Pay(s) ==
  /\ running = "none" /\ armed = "none"
  /\ lives[s] > 0
  /\ s # first => lives[first] = 0
  /\ armed' = s
  /\ lives' = [lives EXCEPT ![s] = @ - 1]
  /\ UNCHANGED <<running, first, content>>

(* What starts is what was paid for or what the user picked.  It only runs *)
(* if it is whole.                                                         *)
Start(s) ==
  /\ running = "none"
  /\ running' = IF content[s] = Torn THEN "none" ELSE s
  /\ first' = s
  /\ armed' = "none"
  /\ UNCHANGED <<lives, content>>

Stop ==
  /\ running' = "none" /\ armed' = "none"
  /\ UNCHANGED <<first, lives, content>>

Confirm ==
  /\ running # "none"
  /\ lives' = [lives EXCEPT ![running] = MaxLives]
  /\ UNCHANGED <<running, armed, first, content>>

Withdraw ==
  /\ running # "none"
  /\ lives' = [lives EXCEPT ![Opposite(running)] = 0]
  /\ UNCHANGED <<running, armed, first, content>>

Rewrite ==
  /\ running # "none"
  /\ lives[Opposite(running)] = 0
  /\ \E c \in Version \cup {Torn} : content' = [content EXCEPT ![Opposite(running)] = c]
  /\ UNCHANGED <<running, armed, first, lives>>

Prefer(s) ==
  /\ first' = s
  /\ lives' = [lives EXCEPT ![s] = MaxLives]
  /\ UNCHANGED <<running, armed, content>>

Commit ==
  /\ running # "none"
  /\ content[Opposite(running)] # Torn
  /\ Prefer(Opposite(running))

(* The user may choose even a torn slot.                                   *)
Choose == running # "none" /\ Prefer(Opposite(running))

NextAB ==
  \/ \E s \in ASlot : Pay(s) \/ Start(s)
  \/ Stop \/ Confirm \/ Withdraw \/ Rewrite \/ Commit \/ Choose

SpecAB == InitAB /\ [][NextAB]_abVars
=============================================================================
