---------------------------- MODULE WriterCommit ----------------------------
(***************************************************************************)
(* The COMMIT surface of knowledge/writer over the command ledger and a    *)
(* compare-and-swap Snapshot ref.  Commits are numbered in the order the   *)
(* authority accepts them, so the ledger module's "commits" is the head of *)
(* the target ref.  A request digest covers the payload and the expected   *)
(* head, as CanonicalDigest covers the whole change set.                   *)
(***************************************************************************)
EXTENDS CommandLog

CONSTANTS
    Payloads,   \* operations and message of a change set; Digests is Payloads \X (0 .. MaxCommits)
    Explicit    \* commands whose caller states ExpectedTargetCommit itself

VARIABLE intent   \* intent[w]: the CommitIntent caller w is executing

wvars == <<vars, intent>>

NoIntent == [phase |-> "none"]

Intent == [phase : {"lookup", "commit"}, cmd : Commands, payload : Payloads,
           expected : 0 .. MaxCommits]

WInit == Init /\ intent = [w \in Callers |-> NoIntent]

(* CommitIntent first looks its command up in the ledger.                  *)
CommitIntent(w, c, p) ==
    /\ c \notin Explicit
    /\ intent[w].phase = "none"
    /\ Start(w, "lookup", c, <<p, 0>>)
    /\ intent' = [intent EXCEPT ![w] =
         [phase |-> "lookup", cmd |-> c, payload |-> p, expected |-> 0]]

(* Writer.Lookup reports an entry only if its receipt decodes; an empty    *)
(* one does not, null does.                                                *)
Replayable(w) == op[w].pc = "decide" /\ op[w].entry.receipt # "empty"

(* A replayable command reuses its stored expectation, any other takes the *)
(* current head, and so does one whose ledger read failed.                 *)
FillExpected(w) ==
    /\ intent[w].phase = "lookup"
    /\ LookupReturns(w) \/ StoreGetFails(w)
    /\ intent' = [intent EXCEPT ![w].phase = "commit",
         ![w].expected = IF Replayable(w) THEN op[w].entry.digest[2] ELSE commits]

(* Commit enters the ledger with the digest of the filled change set.      *)
Commit(w) ==
    /\ intent[w].phase = "commit"
    /\ Start(w, "execute", intent[w].cmd, <<intent[w].payload, intent[w].expected>>)
    /\ intent' = [intent EXCEPT ![w] = NoIntent]

(* A caller that states ExpectedTargetCommit itself: any head it has seen. *)
CommitAt(w, c, p, e) ==
    /\ c \in Explicit
    /\ intent[w].phase = "none"
    /\ e <= commits
    /\ Start(w, "execute", c, <<p, e>>)
    /\ UNCHANGED intent

(* Mutant: the head is not compared before publishing.                     *)
ApplyBlind(w) == ApplySucceeds(w) /\ UNCHANGED intent

(* Mutant: the head is overwritten, then the error is returned.            *)
ApplyThenRefuse(w) == ApplyFails(w) /\ UNCHANGED intent

(* ApplyTreeCommit publishes only onto the expected head ...               *)
ApplyCAS(w) ==
    /\ ApplySucceeds(w)
    /\ op[w].digest[2] = commits
    /\ UNCHANGED intent

(* ... and otherwise fails.  An expected head may also fail to move, or    *)
(* move while the answer is lost.                                          *)
ApplyRefused(w) ==
    /\ ApplyFails(w)
    /\ commits' # commits => op[w].digest[2] = commits
    /\ UNCHANGED intent

LedgerStep(w) ==
    /\ \/ StoreGet(w) \/ CacheEntry(w) \/ ExecuteKnown(w)
       \/ op[w].kind # "lookup" /\ StoreGetFails(w)
       \/ Reserve(w) \/ ReserveFails(w) \/ RememberPending(w)
       \/ DropClaim(w) \/ ForgetClaim(w)
       \/ SaveReceipt(w) \/ SaveReceiptFails(w) \/ RememberReceipt(w)
    /\ UNCHANGED intent

Restart ==
    /\ Crash
    /\ intent' = [w \in Callers |-> NoIntent]

WNext ==
    \/ \E w \in Callers, c \in Commands, p \in Payloads :
         \/ CommitIntent(w, c, p)
         \/ \E e \in 0 .. MaxCommits : CommitAt(w, c, p, e)
    \/ \E w \in Callers :
         FillExpected(w) \/ Commit(w) \/ ApplyCAS(w) \/ ApplyRefused(w) \/ LedgerStep(w)
    \/ Restart

WSpec == WInit /\ [][WNext]_wvars

-----------------------------------------------------------------------------

(* One request is published at most once, whatever is lost between the     *)
(* authority and the ledger: the digest carries the expected head, and the *)
(* head never returns to it.                                               *)
RequestOnce ==
    \A p, q \in published : p.cmd = q.cmd /\ p.digest = q.digest => p = q

(* Every publication extends the very head its request was computed from   *)
(* (applySnapshot under the authority's compare-and-set): no silent loss   *)
(* of a concurrent writer's commit.                                        *)
NoLostUpdate == \A p \in published : p.commit = p.digest[2] + 1

(* Both, of every request a caller may repeat.                             *)
CommitExact == RequestOnce /\ NoLostUpdate

=============================================================================
