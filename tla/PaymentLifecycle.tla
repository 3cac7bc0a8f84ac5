-------------------------- MODULE PaymentLifecycle --------------------------
(***************************************************************************)
(* What the treasury promises of its outward payments, whatever the roles, *)
(* the bands and the steps inside a request: a payment moves forward from  *)
(* a draft through approval to the bank, the end states are final, and the *)
(* payments that claim one source document come one after the other, the   *)
(* next only when the one before was rejected.  OutwardPayment implements  *)
(* it while requests are served one at a time.                             *)
(***************************************************************************)
CONSTANT Payments

VARIABLES
    phase,   \* the phase of each payment
    claims   \* the payments made out for the source document

Phases == {"none", "draft", "approving", "approved", "held", "rejected", "paid"}

Init ==
    /\ phase = [p \in Payments |-> "none"]
    /\ claims = {}

Enter(p, to) == phase[p] = "none" /\ phase' = [phase EXCEPT ![p] = to]

Record(p) ==
    /\ \E to \in {"draft", "approving", "approved"} : Enter(p, to)
    /\ UNCHANGED claims

Claim(p) ==
    /\ \A q \in claims : phase[q] = "rejected"
    /\ Enter(p, "approving")
    /\ claims' = claims \cup {p}

Move(p, from, to) ==
    /\ phase[p] \in from
    /\ phase' = [phase EXCEPT ![p] = to]
    /\ UNCHANGED claims

Submit(p)    == Move(p, {"draft"}, "approving")
Authorise(p) == Move(p, {"approving"}, "approved")
Reject(p)    == Move(p, {"approving", "approved"}, "rejected")
Hold(p)      == Move(p, {"draft", "approving", "approved"}, "held")
Pay(p)       == Move(p, {"approved"}, "paid")

Next ==
    \E p \in Payments :
        \/ Record(p)
        \/ Claim(p)
        \/ Submit(p)
        \/ Authorise(p)
        \/ Reject(p)
        \/ Hold(p)
        \/ Pay(p)

Spec == Init /\ [][Next]_<<phase, claims>>

=============================================================================
