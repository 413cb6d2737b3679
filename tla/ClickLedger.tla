---------------------------- MODULE ClickLedger ----------------------------
(***************************************************************************)
(* What the click pipeline promises of a click, without messages, queues,  *)
(* calls or a breaker: it waits, and then it is stored, once and for ever, *)
(* or kept among the failures, from where a valid click leaves only to be  *)
(* stored.  It is nowhere only when somebody has given it up, or when more *)
(* calls have failed than the retries make up for                          *)
(* (wrangler.jsonc:138-141, drain-dlq.ts:276).                             *)
(***************************************************************************)
EXTENDS Naturals

CONSTANTS Clicks, Oversized, MaxRetries

VARIABLES place,       \* of each click
          writtenOff,  \* clicks given up with an alert, or purged
          down         \* failed calls

ledgerVars == <<place, writtenOff, down>>

Places == {"new", "waiting", "failed", "stored", "nowhere"}
Waits == {"waiting", "failed"}

LedgerInit == place = [c \in Clicks |-> "new"] /\ writtenOff = {} /\ down = 0

Goes(c, from, to) == place[c] \in from /\ place'[c] = to

Excused(c) == c \in writtenOff \/ down > IF c \in Oversized THEN 0 ELSE MaxRetries

Send(c) == Goes(c, {"new"}, "waiting")
Store(c) == c \notin Oversized /\ Goes(c, Waits, "stored")
Fail(c) == Goes(c, {"waiting"}, "failed")
Lose(c) == Goes(c, {"waiting"}, "nowhere") /\ Excused(c)'

\* The replay of a click the route rejects: its row is replaced by another.
Return(c) ==
    /\ c \in Oversized
    /\ Goes(c, {"failed"}, "waiting") \/ (Goes(c, {"failed"}, "nowhere") /\ Excused(c)')

WriteOff(c) ==
    /\ writtenOff' = writtenOff \cup {c}
    /\ Goes(c, Waits, "nowhere") \/ Goes(c, {"failed"}, "waiting") \/ UNCHANGED place[c]

Moves(c) == UNCHANGED place[c] \/ Send(c) \/ Store(c) \/ Fail(c) \/ Lose(c) \/ Return(c)

\* A step moves the clicks of a batch, each its own way, and with one call that may fail;
\* what is given up is given up alone.
LedgerNext ==
    /\ down' \in {down, down + 1}
    /\ place' \in [Clicks -> Places]
    /\ \/ UNCHANGED writtenOff /\ \A c \in Clicks : Moves(c)
       \/ \E c \in Clicks : WriteOff(c) /\ \A x \in Clicks \ {c} : UNCHANGED place[x]

LedgerSpec == LedgerInit /\ [][LedgerNext]_ledgerVars
=============================================================================
