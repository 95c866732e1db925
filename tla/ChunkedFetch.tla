---------------------------- MODULE ChunkedFetch ----------------------------
(***************************************************************************)
(* get_multiple_accounts_chunked (observability/indexer/src/common.rs):    *)
(* the keys are split into chunks of ChunkSize (100 in the code), one      *)
(* future per chunk calls get_multiple_accounts under an exponential       *)
(* backoff retry that gives up after 5 s, join_all awaits them all, and    *)
(* the results are merged in chunk order into a map from key to account,   *)
(* skipping keys with no account; the first chunk that failed makes the    *)
(* whole call return its error.  The futures' RPC calls interleave, and    *)
(* accounts are created and closed on chain meanwhile.  The backoff's     *)
(* time budget is abstracted to at most MaxTries calls; account data to    *)
(* the key.                                                                *)
(***************************************************************************)
EXTENDS Integers, SequencesExt

CONSTANTS
    KeySet,     \* pubkeys (model values)
    MaxKeys,    \* bound on the length of the keys argument
    ChunkSize,  \* keys.chunks(100)
    MaxTries    \* get_multiple_accounts calls one retry makes within 5 s

ASSUME ChunkSize \in Nat \ {0} /\ MaxTries \in Nat \ {0}

(* keys.chunks(n): consecutive pieces of n keys, the last one shorter.     *)
RECURSIVE Chunks(_, _)
Chunks(s, n) ==
    IF s = <<>> THEN <<>>
    ELSE LET k == IF Len(s) < n THEN Len(s) ELSE n
         IN  <<SubSeq(s, 1, k)>> \o Chunks(SubSeq(s, k + 1, Len(s)), n)

VARIABLES
    keys,       \* the keys argument
    onChain,    \* the keys that have an account on chain now
    fetch,      \* [ChunkIds -> [st : {"pending","ok","err"}, tries, found]]
    ret         \* the call's result: [done, ok, map]

vars == <<keys, onChain, fetch, ret>>

KeyChunks == Chunks(keys, ChunkSize)
ChunkIds == DOMAIN KeyChunks

NotReturned == [done |-> FALSE, ok |-> FALSE, map |-> {}]

Init ==
    /\ keys \in BoundedSeq(KeySet, MaxKeys)
    /\ onChain \in SUBSET KeySet
    /\ fetch = [c \in ChunkIds |-> [st |-> "pending", tries |-> 0, found |-> {}]]
    /\ ret = NotReturned

(* Variant: the answer's None entries counted as found accounts.          *)
GetMultipleAccountsInsertsNone(c) ==
    /\ fetch[c].st = "pending"
    /\ fetch' = [fetch EXCEPT ![c] = [@ EXCEPT !.st = "ok", !.tries = @ + 1,
                                      !.found = ToSet(KeyChunks[c])]]
    /\ UNCHANGED <<keys, onChain, ret>>

(* One get_multiple_accounts call of chunk c that answers: the accounts of *)
(* the chunk's keys as they are on chain at this moment.                   *)
GetMultipleAccounts(c) ==
    /\ fetch[c].st = "pending"
    /\ fetch' = [fetch EXCEPT ![c] = [@ EXCEPT !.st = "ok", !.tries = @ + 1,
                                      !.found = ToSet(KeyChunks[c]) \cap onChain]]
    /\ UNCHANGED <<keys, onChain, ret>>

(* Variant: a backoff whose elapsed time restarts, so the budget never    *)
(* runs out.                                                               *)
GetMultipleAccountsFailsNoBudget(c) ==
    /\ fetch[c].st = "pending"
    /\ fetch' = [fetch EXCEPT ![c].tries = IF @ + 1 = MaxTries THEN 0 ELSE @ + 1]
    /\ UNCHANGED <<keys, onChain, ret>>

(* A call of chunk c that fails: retried until the budget is spent, then   *)
(* the future resolves to the error.                                       *)
GetMultipleAccountsFails(c) ==
    /\ fetch[c].st = "pending"
    /\ fetch' = [fetch EXCEPT ![c] = [@ EXCEPT
                    !.tries = @ + 1,
                    !.st = IF fetch[c].tries + 1 = MaxTries THEN "err" ELSE "pending"]]
    /\ UNCHANGED <<keys, onChain, ret>>

(* join_all resolves once every future has; the merge loop inserts each    *)
(* chunk's found accounts in order and returns at the first error.         *)
JoinAll ==
    /\ ret = NotReturned
    /\ \A c \in ChunkIds : fetch[c].st # "pending"
    /\ ret' = IF \E c \in ChunkIds : fetch[c].st = "err"
              THEN [done |-> TRUE, ok |-> FALSE, map |-> {}]
              ELSE [done |-> TRUE, ok |-> TRUE, map |-> UNION {fetch[c].found : c \in ChunkIds}]
    /\ UNCHANGED <<keys, onChain, fetch>>

(* An account is created or closed on chain by someone else.              *)
ChainChanges(k) ==
    /\ onChain' = IF k \in onChain THEN onChain \ {k} ELSE onChain \cup {k}
    /\ UNCHANGED <<keys, fetch, ret>>

Next ==
    \/ \E c \in ChunkIds : GetMultipleAccounts(c) \/ GetMultipleAccountsFails(c)
    \/ JoinAll
    \/ \E k \in KeySet : ChainChanges(k)

(* tokio polls every future of join_all, and every RPC call completes,     *)
(* with the accounts or with an error (the client has a timeout).          *)
Fairness ==
    /\ \A c \in 1..MaxKeys :
         WF_vars(c \in ChunkIds /\ (GetMultipleAccounts(c) \/ GetMultipleAccountsFails(c)))
    /\ WF_vars(JoinAll)

Spec == Init /\ [][Next]_vars /\ Fairness

(***************************************************************************)
(* Properties                                                              *)
(***************************************************************************)
(* The call returns, with the accounts or an error, however often the RPC *)
(* fails: the backoff's time budget bounds the retries of every chunk.     *)
Returns == <>ret.done

(***************************************************************************)
(* Refinement: the chunked fetch implements AccountsFetch.  The keys of    *)
(* the chunks answered so far are the keys read, the union of their found  *)
(* sets the keys found, and a chunk whose retries ran out the failed read. *)
(***************************************************************************)
AnsweredKeys == UNION {ToSet(KeyChunks[c]) : c \in {d \in ChunkIds : fetch[d].st = "ok"}}
FoundKeys == UNION {fetch[c].found : c \in ChunkIds}
AnyFailed == \E c \in ChunkIds : fetch[c].st = "err"

Abstract == INSTANCE AccountsFetch
                WITH answered <- AnsweredKeys, found <- FoundKeys, failed <- AnyFailed

(* Every key in the returned map had an account at the moment its chunk   *)
(* was read, every key of the call left out had none when read, and the   *)
(* call returns once all chunks are answered or one failed: the merged map *)
(* is no snapshot of one slot, but each entry is one the chain really held *)
(* during the call.                                                        *)
FetchRefinement == Abstract!Spec

=============================================================================
