---------------------------- MODULE SignatureCache ---------------------------
(***************************************************************************)
(* The thought signatures Gemini models write on their tool calls, kept by *)
(* call id for clients that drop them (provider/signatures.go). Each Put   *)
(* and each Get holds the lock from end to end.                            *)
(***************************************************************************)
EXTENDS Integers, Sequences

CONSTANTS
    MaxSignatures,  \* how many are kept
    TTL             \* and for how long

\* Ids and signatures are numbers.
ASSUME SignatureAssumption == MaxSignatures \in Nat \ {0} /\ TTL \in Nat

NoSignature == 0

NewSignatureCache == [byID |-> [id \in {} |-> 0], order |-> <<>>]

\* Mutant: the newest goes when the cache is full.
PutOverNewest(cache, id, signer, signature, now) ==
    IF signature = NoSignature THEN cache
    ELSE IF Len(cache.order) < MaxSignatures
    THEN [byID  |-> [k \in DOMAIN cache.byID \cup {id} |->
                        IF k = id THEN [signer |-> signer, signature |-> signature, at |-> now] ELSE cache.byID[k]],
          order |-> Append(cache.order, id)]
    ELSE cache

\* An id that is known keeps its place; the oldest goes when there are too many.
Put(cache, id, signer, signature, now) ==
    IF signature = NoSignature THEN cache
    ELSE LET order == IF id \in DOMAIN cache.byID THEN cache.order ELSE Append(cache.order, id)
             entry == [signer |-> signer, signature |-> signature, at |-> now]
             byID  == [k \in DOMAIN cache.byID \cup {id} |-> IF k = id THEN entry ELSE cache.byID[k]]
         IN  IF Len(order) <= MaxSignatures THEN [byID |-> byID, order |-> order]
             ELSE [byID |-> [k \in DOMAIN byID \ {Head(order)} |-> byID[k]], order |-> Tail(order)]

\* Mutant: whoever asks gets it.
GetAnySigner(cache, id, signer, now) ==
    IF id \in DOMAIN cache.byID /\ now - cache.byID[id].at <= TTL THEN cache.byID[id].signature ELSE NoSignature

\* Only for the model that wrote it, and while it is fresh.
Get(cache, id, signer, now) ==
    IF id \in DOMAIN cache.byID /\ cache.byID[id].signer = signer /\ now - cache.byID[id].at <= TTL
    THEN cache.byID[id].signature ELSE NoSignature
=============================================================================
