-------------------------- MODULE LegalSubmission --------------------------
(***************************************************************************)
(* What the Worker promises about each fiscal document, whatever handlers  *)
(* run, crash or overlap: it is submitted at most once, the ledger records *)
(* the Ministry's own verdict and at most once, and the only later change  *)
(* is an annulment the Ministry has granted to an accepted document.       *)
(***************************************************************************)
CONSTANT Docs

VARIABLES submitted,  \* documents whose POST has left the Worker
          mh,         \* the Ministry's verdict on each document
          annulled,   \* documents the Ministry has annulled
          ledger      \* what the Worker's ledger says

legalVars == <<submitted, mh, annulled, ledger>>

Init ==
    /\ submitted = {}
    /\ mh = [d \in Docs |-> "NONE"]
    /\ annulled = {}
    /\ ledger = [d \in Docs |-> "OPEN"]

Submit(d) ==
    /\ d \notin submitted
    /\ submitted' = submitted \cup {d}
    /\ UNCHANGED <<mh, annulled, ledger>>

Decide(d, verdict) ==
    /\ d \in submitted
    /\ mh[d] = "NONE"
    /\ mh' = [mh EXCEPT ![d] = verdict]
    /\ UNCHANGED <<submitted, annulled, ledger>>

Record(d) ==
    /\ ledger[d] = "OPEN"
    /\ mh[d] # "NONE"
    /\ ledger' = [ledger EXCEPT ![d] = mh[d]]
    /\ UNCHANGED <<submitted, mh, annulled>>

Annul(d) ==
    /\ ledger[d] = "PROCESADO"
    /\ d \notin annulled
    /\ annulled' = annulled \cup {d}
    /\ UNCHANGED <<submitted, mh, ledger>>

RecordAnnulment(d) ==
    /\ d \in annulled
    /\ ledger[d] = "PROCESADO"
    /\ ledger' = [ledger EXCEPT ![d] = "ANULADO"]
    /\ UNCHANGED <<submitted, mh, annulled>>

Next ==
    \E d \in Docs :
       \/ Submit(d) \/ Record(d) \/ Annul(d) \/ RecordAnnulment(d)
       \/ \E verdict \in {"PROCESADO", "RECHAZADO"} : Decide(d, verdict)

Spec == Init /\ [][Next]_legalVars

=============================================================================
