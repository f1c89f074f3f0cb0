---------------------------- MODULE ShareLedger ----------------------------
(***************************************************************************)
(* What the pool-mining path promises of its shares.  A share is offered   *)
(* to the pool, one at a time; the pool may credit it; the miner settles   *)
(* it as accepted only once it is credited, or gives it up as failed.      *)
(* Connections, requests, answers and sessions do not appear: module       *)
(* MinerRuntime implements this specification.                             *)
(***************************************************************************)
EXTENDS Naturals

VARIABLES
    share,          \* the share in flight: "none", "offered" or "credited"
    credits,        \* shares the pool has credited
    accepted,       \* shares the miner counts as accepted
    failed          \* shares the miner counts as failed

ledgerVars == <<share, credits, accepted, failed>>

LedgerInit ==
    /\ share = "none"
    /\ credits = 0
    /\ accepted = 0
    /\ failed = 0

Offer ==
    /\ share = "none"
    /\ share' = "offered"
    /\ UNCHANGED <<credits, accepted, failed>>

Credit ==
    /\ share = "offered"
    /\ share' = "credited"
    /\ credits' = credits + 1
    /\ UNCHANGED <<accepted, failed>>

Settle ==
    /\ share = "credited"
    /\ share' = "none"
    /\ accepted' = accepted + 1
    /\ UNCHANGED <<credits, failed>>

\* The miner cannot know whether the share was credited, or still will be.
GiveUp ==
    /\ share # "none"
    /\ share' = "none"
    /\ failed' = failed + 1
    /\ \/ UNCHANGED credits
       \/ share = "offered" /\ credits' = credits + 1
    /\ UNCHANGED accepted

LedgerNext == Offer \/ Credit \/ Settle \/ GiveUp

LedgerSpec == LedgerInit /\ [][LedgerNext]_ledgerVars
=============================================================================
