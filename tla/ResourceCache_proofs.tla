------------------------ MODULE ResourceCache_proofs ------------------------
(***************************************************************************)
(* Proofs about ResourceCache for any resources, components, writes and    *)
(* accounts: stale data is never shown without a flag.                     *)
(*                                                                         *)
(* That no stale entry is unflagged is not inductive.  A response that is  *)
(* on its way must not bring back what an acknowledged write overtook, to  *)
(* its own key or to those it primes; so no acknowledged write on a key is *)
(* newer than an answer to it, or than what is acknowledged on the         *)
(* resources that prime it.                                                *)
(***************************************************************************)
EXTENDS ResourceCache, TLAPS

USE BoundAssumption, NoUserAssumption, HookAssumption, PrimesAssumption, CoverAssumption,
    SeedsAssumption

\* A response reflects every write acknowledged on its key.
AnswersAreFresh ==
    \A k \in Key : request[k].stage = "answered" => acked[k] <= request[k].seen

\* Whatever is acknowledged on a key is acknowledged on what primes it.
PrimersKnow == \A k \in Key : \A x \in Key \cap Primes[k] : acked[x] <= acked[k]

\* A key that no write invalidates has nothing to miss.
NeverInvalidated == \A k \in Key : (\A w \in Write : k \notin Invalidates[w]) => acked[k] = 0

IInv == /\ TypeOK
        /\ StaleIsFlagged
        /\ AnswersAreFresh
        /\ PrimersKnow
        /\ NeverInvalidated

-----------------------------------------------------------------------------
(* Entries *)

\* An entry that was primed with n.
LEMMA PrimeIs ==
    ASSUME NEW entries, NEW keys, NEW n, NEW k \in Key
    PROVE  Prime(entries, keys, n)[k] = IF k \in keys THEN Filled(n) ELSE entries[k]
BY DEF Prime

LEMMA FilledIs ==
    ASSUME NEW n, NEW m \in Nat, n \in 0..m
    PROVE  /\ Filled(n).hasData /\ Filled(n).data = n
           /\ ~Filled(n).invalidated /\ ~Filled(n).error
           /\ Filled(n) \in [hasData : BOOLEAN, data : 0..m,
                             invalidated : BOOLEAN, error : BOOLEAN]
BY DEF Filled, EmptyEntry

LEMMA FlagsChange ==
    ASSUME NEW m, NEW e \in [hasData : BOOLEAN, data : 0..m, invalidated : BOOLEAN, error : BOOLEAN]
    PROVE  /\ [e EXCEPT !.error = FALSE] \in [hasData : BOOLEAN, data : 0..m,
                                             invalidated : BOOLEAN, error : BOOLEAN]
           /\ [e EXCEPT !.invalidated = FALSE, !.error = TRUE]
                 \in [hasData : BOOLEAN, data : 0..m, invalidated : BOOLEAN, error : BOOLEAN]
OBVIOUS

LEMMA RequestsAre ==
    ASSUME NEW m \in Nat
    PROVE  /\ {NoRequest, Sent} \subseteq [stage : {"none", "sent", "answered"}, seen : 0..m]
           /\ Sent # NoRequest /\ NoRequest.stage = "none" /\ Sent.stage = "sent"
BY DEF NoRequest, Sent

\* Loading leaves a key flagged that was: what clears the error is a request.
LEMMA LoadKeeps ==
    ASSUME IInv, NEW k \in Key, NEW force, Load(k, force), UNCHANGED <<server, writes, acked, owner,
           signedIn, restored>>, sub' \in [Hook -> {"none", "live", "orphan"}],
           \A h \in Hook : sub'[h] # "none" => signedIn
    PROVE  IInv'
<1>1. CASE UNCHANGED <<entry, request>>
    BY <1>1 DEF IInv, TypeOK, StaleIsFlagged, Stale, InFlight, AnswersAreFresh, PrimersKnow,
       NeverInvalidated
<1>2. CASE /\ entry' = [entry EXCEPT ![k].error = FALSE]
           /\ request' = [request EXCEPT ![k] = Sent]
    <2>1. server \in Nat
        BY DEF IInv, TypeOK
    <2>2. ASSUME NEW x \in Key
          PROVE  /\ entry'[x] = IF x = k THEN [entry[x] EXCEPT !.error = FALSE] ELSE entry[x]
                 /\ request'[x] = IF x = k THEN Sent ELSE request[x]
        BY <1>2 DEF IInv, TypeOK
    <2>3. TypeOK'
        <3>1. entry' \in [Key -> [hasData : BOOLEAN, data : 0..server,
                                 invalidated : BOOLEAN, error : BOOLEAN]]
            <4> DEFINE e == [entry[k] EXCEPT !.error = FALSE]
            <4>0. entry[k] \in [hasData : BOOLEAN, data : 0..server,
                                invalidated : BOOLEAN, error : BOOLEAN]
                BY DEF IInv, TypeOK
            <4>1. e \in [hasData : BOOLEAN, data : 0..server,
                         invalidated : BOOLEAN, error : BOOLEAN]
                BY <4>0, FlagsChange
            <4>2. entry' = [entry EXCEPT ![k] = e]
                BY <1>2
            <4> HIDE DEF e
            <4> QED
                BY <4>1, <4>2 DEF IInv, TypeOK
        <3>2. request' \in [Key -> [stage : {"none", "sent", "answered"}, seen : 0..server]]
            BY <1>2, <2>1, RequestsAre DEF IInv, TypeOK
        <3> QED
            BY <3>1, <3>2 DEF IInv, TypeOK
    <2>4. StaleIsFlagged'
        <3> SUFFICES ASSUME NEW x \in Key, Stale(x)'
                     PROVE  entry'[x].invalidated \/ InFlight(x)' \/ entry'[x].error
            BY DEF StaleIsFlagged
        <3>1. CASE x = k
            BY <2>1, <2>2, <3>1, RequestsAre DEF InFlight
        <3>2. CASE x # k
            BY <2>2, <3>2 DEF IInv, StaleIsFlagged, Stale, InFlight
        <3> QED
            BY <3>1, <3>2
    <2>5. AnswersAreFresh'
        BY <2>1, <2>2, RequestsAre DEF IInv, AnswersAreFresh
    <2> QED
        BY <2>3, <2>4, <2>5 DEF IInv, PrimersKnow, NeverInvalidated
<1> QED
    BY <1>1, <1>2 DEF Load

LEMMA MountKeeps ==
    ASSUME IInv, NEW h \in Hook, NEW expired, Mount(h, expired) PROVE IInv'
<1>1. /\ sub' \in [Hook -> {"none", "live", "orphan"}]
      /\ \A x \in Hook : sub'[x] # "none" => signedIn
    BY DEF Mount, IInv, TypeOK
<1> QED
    BY <1>1, LoadKeeps DEF Mount, sessionVars

LEMMA RefetchKeeps == ASSUME IInv, NEW h \in Hook, Refetch(h) PROVE IInv'
<1>1. /\ sub' \in [Hook -> {"none", "live", "orphan"}]
      /\ \A x \in Hook : sub'[x] # "none" => signedIn
    BY DEF Refetch, IInv, TypeOK
<1> QED
    BY <1>1, LoadKeeps DEF Refetch, sessionVars

LEMMA UnmountKeeps == ASSUME IInv, NEW h \in Hook, Unmount(h) PROVE IInv'
BY DEF Unmount, sessionVars, IInv, TypeOK, StaleIsFlagged, Stale, InFlight, AnswersAreFresh,
   PrimersKnow, NeverInvalidated

-----------------------------------------------------------------------------
(* Requests *)

LEMMA ServeKeeps == ASSUME IInv, NEW k \in Key, Serve(k) PROVE IInv'
<1>1. /\ UNCHANGED <<server, entry, writes, sub, acked, owner, signedIn, restored>>
      /\ request' = [request EXCEPT ![k] = [stage |-> "answered", seen |-> server]]
    BY DEF Serve, sessionVars
<1>2. \A x \in Key : request'[x] = IF x = k THEN [stage |-> "answered", seen |-> server]
                                           ELSE request[x]
    BY <1>1 DEF IInv, TypeOK
<1>3. TypeOK'
    BY <1>1 DEF IInv, TypeOK
<1>4. \A x \in Key : InFlight(x) => InFlight(x)'
    BY <1>2 DEF InFlight, NoRequest
<1>5. StaleIsFlagged'
    BY <1>1, <1>4 DEF IInv, StaleIsFlagged, Stale
<1>6. AnswersAreFresh'
    BY <1>1, <1>2 DEF IInv, TypeOK, AnswersAreFresh
<1> QED
    BY <1>1, <1>3, <1>5, <1>6 DEF IInv, PrimersKnow, NeverInvalidated

\* The answer is fresh for its own key, and so for what it primes.
LEMMA ResolveKeeps == ASSUME IInv, NEW k \in Key, Resolve(k) PROVE IInv'
<1> DEFINE n == request[k].seen
           keys == Primes[k] \cup {k}
<1>1. /\ UNCHANGED <<server, writes, sub, acked, owner, signedIn, restored>>
      /\ request[k].stage = "answered"
    BY DEF Resolve, sessionVars
<1>2. server \in Nat /\ n \in 0..server
    BY DEF IInv, TypeOK
<1>3. ASSUME NEW x \in Key
      PROVE  /\ entry'[x] = IF x \in keys THEN Filled(n) ELSE entry[x]
             /\ request'[x] = IF x \in keys THEN NoRequest ELSE request[x]
    BY DEF Resolve, Prime, Abort
<1>4. TypeOK'
    <2>1. entry' \in [Key -> [hasData : BOOLEAN, data : 0..server,
                             invalidated : BOOLEAN, error : BOOLEAN]]
        BY <1>2, <1>3, FilledIs DEF Resolve, Prime, IInv, TypeOK
    <2>2. request' \in [Key -> [stage : {"none", "sent", "answered"}, seen : 0..server]]
        BY <1>2, <1>3, RequestsAre DEF Resolve, Abort, IInv, TypeOK
    <2> QED
        BY <1>1, <2>1, <2>2 DEF IInv, TypeOK
<1>5. ASSUME NEW x \in Key, x \in keys PROVE acked[x] <= n
    BY <1>1, <1>2, <1>5 DEF IInv, TypeOK, AnswersAreFresh, PrimersKnow
<1> HIDE DEF n, keys
<1>6. StaleIsFlagged'
    <2> SUFFICES ASSUME NEW x \in Key, Stale(x)'
                 PROVE  entry'[x].invalidated \/ InFlight(x)' \/ entry'[x].error
        BY DEF StaleIsFlagged
    <2>1. x \notin keys
        <3> SUFFICES ASSUME x \in keys PROVE FALSE
            OBVIOUS
        <3>1. entry'[x].data = n /\ acked'[x] = acked[x]
            BY <1>1, <1>2, <1>3, FilledIs
        <3> QED
            BY <1>2, <1>5, <3>1 DEF Stale, IInv, TypeOK
    <2> QED
        BY <1>1, <1>3, <2>1 DEF IInv, StaleIsFlagged, Stale, InFlight
<1>7. AnswersAreFresh'
    BY <1>1, <1>2, <1>3, RequestsAre DEF IInv, AnswersAreFresh
<1> QED
    BY <1>1, <1>4, <1>6, <1>7 DEF IInv, PrimersKnow, NeverInvalidated

LEMMA FailKeeps == ASSUME IInv, NEW k \in Key, Fail(k) PROVE IInv'
<1>1. UNCHANGED <<server, writes, sub, acked, owner, signedIn, restored>>
    BY DEF Fail, sessionVars
<1>2. ASSUME NEW x \in Key
      PROVE  /\ entry'[x] = IF x = k THEN [entry[x] EXCEPT !.invalidated = FALSE, !.error = TRUE]
                                    ELSE entry[x]
             /\ request'[x] = IF x = k THEN NoRequest ELSE request[x]
    BY DEF Fail, Abort, IInv, TypeOK
<1>3. TypeOK'
    <2>1. entry' \in [Key -> [hasData : BOOLEAN, data : 0..server,
                             invalidated : BOOLEAN, error : BOOLEAN]]
        <3> DEFINE e == [entry[k] EXCEPT !.invalidated = FALSE, !.error = TRUE]
        <3>0. entry[k] \in [hasData : BOOLEAN, data : 0..server,
                            invalidated : BOOLEAN, error : BOOLEAN]
            BY DEF IInv, TypeOK
        <3>1. e \in [hasData : BOOLEAN, data : 0..server,
                     invalidated : BOOLEAN, error : BOOLEAN]
            BY <3>0, FlagsChange
        <3>2. entry' = [entry EXCEPT ![k] = e]
            BY DEF Fail
        <3> HIDE DEF e
        <3> QED
            BY <3>1, <3>2 DEF IInv, TypeOK
    <2>2. request' \in [Key -> [stage : {"none", "sent", "answered"}, seen : 0..server]]
        BY RequestsAre DEF Fail, Abort, IInv, TypeOK
    <2> QED
        BY <1>1, <2>1, <2>2 DEF IInv, TypeOK
<1>4. StaleIsFlagged'
    <2> SUFFICES ASSUME NEW x \in Key, Stale(x)'
                 PROVE  entry'[x].invalidated \/ InFlight(x)' \/ entry'[x].error
        BY DEF StaleIsFlagged
    <2>1. CASE x = k
        BY <1>2, <2>1 DEF IInv, TypeOK
    <2>2. CASE x # k
        BY <1>1, <1>2, <2>2 DEF IInv, StaleIsFlagged, Stale, InFlight
    <2> QED
        BY <2>1, <2>2
<1>5. AnswersAreFresh'
    BY <1>1, <1>2, RequestsAre DEF IInv, TypeOK, AnswersAreFresh
<1> QED
    BY <1>1, <1>3, <1>4, <1>5 DEF IInv, PrimersKnow, NeverInvalidated

-----------------------------------------------------------------------------
(* Writes *)

\* A step of a write that the cache does not hear of.
LEMMA WriteMoves ==
    ASSUME IInv, UNCHANGED <<entry, request, sub, acked, owner, signedIn, restored>>,
           server' \in 0..MaxServer, server <= server',
           writes' \in [Write -> [stage : {"idle", "sent", "committed"}, at : 0..server']]
    PROVE  IInv'
<1>1. TypeOK'
    <2>1. server \in Nat /\ 0..server \subseteq 0..server'
        BY DEF IInv, TypeOK
    <2>2. entry \in [Key -> [hasData : BOOLEAN, data : 0..server',
                            invalidated : BOOLEAN, error : BOOLEAN]]
        BY <2>1 DEF IInv, TypeOK
    <2>3. request \in [Key -> [stage : {"none", "sent", "answered"}, seen : 0..server']]
        BY <2>1 DEF IInv, TypeOK
    <2>4. acked \in [Key -> 0..server']
        BY <2>1 DEF IInv, TypeOK
    <2> QED
        BY <2>2, <2>3, <2>4 DEF IInv, TypeOK
<1> QED
    BY <1>1 DEF IInv, StaleIsFlagged, Stale, InFlight, AnswersAreFresh, PrimersKnow,
       NeverInvalidated

LEMMA SendKeeps == ASSUME IInv, NEW w \in Write, Send(w) PROVE IInv'
<1>1. server' \in 0..MaxServer /\ server <= server'
    BY DEF Send, IInv, TypeOK
<1>2. writes' \in [Write -> [stage : {"idle", "sent", "committed"}, at : 0..server']]
    BY DEF Send, IInv, TypeOK
<1> QED
    BY <1>1, <1>2, WriteMoves DEF Send, sessionVars

LEMMA CommitWriteKeeps == ASSUME IInv, NEW w \in Write, CommitWrite(w) PROVE IInv'
<1>1. server' \in 0..MaxServer /\ server <= server' /\ 0..server \subseteq 0..server'
      /\ server' \in 0..server'
    BY DEF CommitWrite, IInv, TypeOK
<1>2. writes' \in [Write -> [stage : {"idle", "sent", "committed"}, at : 0..server']]
    BY <1>1 DEF CommitWrite, IInv, TypeOK
<1> QED
    BY <1>1, <1>2, WriteMoves DEF CommitWrite, sessionVars

LEMMA WriteFailsKeeps == ASSUME IInv, NEW w \in Write, WriteFails(w) PROVE IInv'
<1>1. server' \in 0..MaxServer /\ server <= server' /\ 0 \in 0..server'
    BY DEF WriteFails, IInv, TypeOK
<1>2. writes' \in [Write -> [stage : {"idle", "sent", "committed"}, at : 0..server']]
    BY <1>1 DEF WriteFails, IdleWrite, IInv, TypeOK
<1> QED
    BY <1>1, <1>2, WriteMoves DEF WriteFails, sessionVars

\* What is invalidated is flagged, what is only seeded misses nothing, and no
\* answer that was read before survives on either.
LEMMA AcknowledgeKeeps == ASSUME IInv, NEW w \in Write, Acknowledge(w) PROVE IInv'
<1> DEFINE keys == Invalidates[w]
           n == writes[w].at
           seeded == Prime(entry, Seeds[w], n)
<1>1. UNCHANGED <<server, sub, owner, signedIn, restored>>
    BY DEF Acknowledge, sessionVars
<1>2. server \in Nat /\ n \in 0..server /\ acked \in [Key -> 0..server]
    BY DEF IInv, TypeOK
<1>3. ASSUME NEW x \in Key
      PROVE  /\ seeded[x] = IF x \in Seeds[w] THEN Filled(n) ELSE entry[x]
             /\ seeded[x] \in [hasData : BOOLEAN, data : 0..server,
                               invalidated : BOOLEAN, error : BOOLEAN]
    BY <1>2, PrimeIs, FilledIs DEF IInv, TypeOK
<1>4. ASSUME NEW x \in Key
      PROVE  /\ entry'[x] = IF x \in keys THEN Invalid(seeded[x]) ELSE seeded[x]
             /\ \/ request'[x] = Sent
                \/ request'[x] = NoRequest
                \/ request'[x] = request[x] /\ x \notin keys \cup Seeds[w]
             /\ acked'[x] = IF x \in keys /\ acked[x] < n THEN n ELSE acked[x]
    BY DEF Acknowledge, Abort
<1>5. TypeOK'
    <2>1. \A x \in Key : Invalid(seeded[x]) \in [hasData : BOOLEAN, data : 0..server,
                                                invalidated : BOOLEAN, error : BOOLEAN]
        BY <1>3 DEF Invalid
    <2> HIDE DEF seeded
    <2>2. entry' = [k \in Key |-> IF k \in keys THEN Invalid(seeded[k]) ELSE seeded[k]]
        BY DEF Acknowledge, seeded
    <2>3. entry' \in [Key -> [hasData : BOOLEAN, data : 0..server,
                             invalidated : BOOLEAN, error : BOOLEAN]]
        BY <1>3, <2>1, <2>2
    <2>4. request' \in [Key -> [stage : {"none", "sent", "answered"}, seen : 0..server]]
        BY <1>2, RequestsAre DEF Acknowledge, Abort, IInv, TypeOK
    <2>5. acked' \in [Key -> 0..server]
        BY <1>2 DEF Acknowledge
    <2>6. writes' \in [Write -> [stage : {"idle", "sent", "committed"}, at : 0..server]]
        BY <1>2 DEF Acknowledge, IdleWrite, IInv, TypeOK
    <2> QED
        BY <1>1, <2>3, <2>4, <2>5, <2>6 DEF IInv, TypeOK
<1> HIDE DEF keys, n, seeded
<1>6. NeverInvalidated'
    BY <1>4 DEF IInv, NeverInvalidated, keys
<1>7. StaleIsFlagged'
    <2> SUFFICES ASSUME NEW x \in Key, Stale(x)'
                 PROVE  entry'[x].invalidated \/ InFlight(x)' \/ entry'[x].error
        BY DEF StaleIsFlagged
    <2>1. CASE x \in keys
        BY <1>3, <1>4, <2>1 DEF Invalid
    <2>2. CASE x \notin keys /\ x \in Seeds[w]
        <3>1. acked[x] = 0
            BY <2>2 DEF IInv, NeverInvalidated, keys
        <3>2. entry'[x].data = n /\ acked'[x] = 0
            BY <1>2, <1>3, <1>4, <2>2, <3>1, FilledIs
        <3> QED
            BY <1>2, <3>2 DEF Stale
    <2>3. CASE x \notin keys /\ x \notin Seeds[w]
        <3>1. entry'[x] = entry[x] /\ acked'[x] = acked[x]
            BY <1>3, <1>4, <2>3
        <3>2. InFlight(x) => InFlight(x)'
            <4>1. request'[x] = Sent \/ request'[x] = request[x]
                BY <2>3 DEF Acknowledge, Abort, keys
            <4> QED
                BY <1>2, <4>1, RequestsAre DEF InFlight
        <3> QED
            BY <3>1, <3>2 DEF IInv, StaleIsFlagged, Stale
    <2> QED
        BY <2>1, <2>2, <2>3
<1>8. AnswersAreFresh'
    BY <1>2, <1>4, RequestsAre DEF IInv, AnswersAreFresh
<1>9. PrimersKnow'
    <2> SUFFICES ASSUME NEW k \in Key, NEW x \in Key \cap Primes[k] PROVE acked'[x] <= acked'[k]
        BY DEF PrimersKnow
    <2>1. x \in keys => k \in keys
        BY DEF keys
    <2> QED
        BY <1>2, <1>4, <2>1 DEF IInv, PrimersKnow
<1> QED
    BY <1>5, <1>6, <1>7, <1>8, <1>9 DEF IInv

-----------------------------------------------------------------------------
(* Sessions *)

\* An empty cache has nothing stale.
LEMMA ClearKeeps ==
    ASSUME IInv, Clear, UNCHANGED <<server, writes>>, owner' \in User \cup {NoUser},
           {signedIn', restored'} \subseteq BOOLEAN,
           sub' \in [Hook -> {"none", "live", "orphan"}],
           \A h \in Hook : sub'[h] # "none" => signedIn'
    PROVE  IInv'
<1>1. server \in Nat
    BY DEF IInv, TypeOK
<1>2. /\ entry' = [k \in Key |-> EmptyEntry]
      /\ request' = [k \in Key |-> NoRequest]
      /\ acked' = [k \in Key |-> 0]
    BY DEF Clear, Abort
<1>3. EmptyEntry \in [hasData : BOOLEAN, data : 0..server,
                     invalidated : BOOLEAN, error : BOOLEAN] /\ ~EmptyEntry.hasData
    BY <1>1 DEF EmptyEntry
<1>4. TypeOK'
    BY <1>1, <1>2, <1>3, RequestsAre DEF IInv, TypeOK
<1>5. StaleIsFlagged'
    BY <1>2, <1>3 DEF StaleIsFlagged, Stale
<1>6. AnswersAreFresh'
    BY <1>1, <1>2, RequestsAre DEF AnswersAreFresh
<1> QED
    BY <1>2, <1>4, <1>5, <1>6 DEF IInv, PrimersKnow, NeverInvalidated

LEMMA SignOutKeeps == ASSUME IInv, SignOut PROVE IInv'
<1>1. /\ owner' \in User \cup {NoUser} /\ {signedIn', restored'} \subseteq BOOLEAN
      /\ sub' \in [Hook -> {"none", "live", "orphan"}]
      /\ \A h \in Hook : sub'[h] # "none" => signedIn'
    BY DEF SignOut, Closed, IInv, TypeOK
<1> QED
    BY <1>1, ClearKeeps DEF SignOut

LEMMA ApplySessionKeeps ==
    ASSUME IInv, NEW u \in User \cup {NoUser}, NEW clear, ApplySession(u, clear),
           restored' \in BOOLEAN
    PROVE  IInv'
<1>1. /\ owner' \in User \cup {NoUser} /\ {signedIn', restored'} \subseteq BOOLEAN
      /\ sub' \in [Hook -> {"none", "live", "orphan"}]
      /\ UNCHANGED <<server, writes>>
    BY DEF ApplySession, Closed, Orphaned, IInv, TypeOK
<1>2. \A h \in Hook : sub'[h] # "none" => signedIn'
    BY DEF ApplySession, Closed, Orphaned, IInv, TypeOK
<1>3. CASE Clear
    BY <1>1, <1>2, <1>3, ClearKeeps
<1>4. CASE UNCHANGED <<entry, request, acked>>
    <2>1. TypeOK'
        BY <1>1, <1>2, <1>4 DEF IInv, TypeOK
    <2> QED
        BY <1>4, <2>1 DEF IInv, StaleIsFlagged, Stale, InFlight, AnswersAreFresh, PrimersKnow,
           NeverInvalidated
<1> QED
    BY <1>3, <1>4 DEF ApplySession

-----------------------------------------------------------------------------
(* The invariant *)

LEMMA InitInv == Init => IInv
<1> SUFFICES ASSUME Init PROVE IInv
    OBVIOUS
<1>1. EmptyEntry \in [hasData : BOOLEAN, data : 0..0,
                     invalidated : BOOLEAN, error : BOOLEAN] /\ ~EmptyEntry.hasData
    BY DEF EmptyEntry
<1>2. IdleWrite \in [stage : {"idle", "sent", "committed"}, at : 0..0]
    BY DEF IdleWrite
<1>3. TypeOK
    <2>1. NoRequest \in [stage : {"none", "sent", "answered"}, seen : 0..0]
        BY DEF NoRequest
    <2>2. 0 \in 0..MaxServer /\ 0 \in 0..0
        OBVIOUS
    <2>3. server = 0
        BY DEF Init
    <2>4. /\ entry \in [Key -> [hasData : BOOLEAN, data : 0..server,
                               invalidated : BOOLEAN, error : BOOLEAN]]
          /\ request \in [Key -> [stage : {"none", "sent", "answered"}, seen : 0..server]]
          /\ writes \in [Write -> [stage : {"idle", "sent", "committed"}, at : 0..server]]
          /\ acked \in [Key -> 0..server]
        BY <1>1, <1>2, <2>1, <2>2, <2>3 DEF Init
    <2> QED
        BY <2>2, <2>4 DEF Init, TypeOK
<1>4. StaleIsFlagged
    BY <1>1 DEF Init, StaleIsFlagged, Stale
<1>5. AnswersAreFresh
    BY RequestsAre DEF Init, AnswersAreFresh
<1> QED
    BY <1>3, <1>4, <1>5 DEF Init, IInv, PrimersKnow, NeverInvalidated

LEMMA NextInv == IInv /\ [Next]_vars => IInv'
<1> SUFFICES ASSUME IInv, [Next]_vars PROVE IInv'
    OBVIOUS
<1>1. CASE UNCHANGED vars
    BY <1>1 DEF vars, sessionVars, IInv, TypeOK, StaleIsFlagged, Stale, InFlight,
       AnswersAreFresh, PrimersKnow, NeverInvalidated
<1>2. ASSUME NEW h \in Hook, NEW expired \in BOOLEAN, Mount(h, expired) PROVE IInv'
    BY <1>2, MountKeeps
<1>3. ASSUME NEW h \in Hook, Unmount(h) \/ Refetch(h) PROVE IInv'
    BY <1>3, UnmountKeeps, RefetchKeeps
<1>4. ASSUME NEW k \in Key, Serve(k) \/ Resolve(k) \/ Fail(k) PROVE IInv'
    BY <1>4, ServeKeeps, ResolveKeeps, FailKeeps
<1>5. ASSUME NEW w \in Write, Send(w) \/ CommitWrite(w) \/ Acknowledge(w) \/ WriteFails(w)
      PROVE  IInv'
    BY <1>5, SendKeeps, CommitWriteKeeps, AcknowledgeKeeps, WriteFailsKeeps
<1>6. ASSUME SignOut PROVE IInv'
    BY <1>6, SignOutKeeps
<1>7. ASSUME NEW u \in User \cup {NoUser}, AuthEvent(u) \/ Restore(u) PROVE IInv'
    <2>1. restored' \in BOOLEAN
        BY <1>7 DEF AuthEvent, Restore, IInv, TypeOK
    <2> QED
        BY <1>7, <2>1, ApplySessionKeeps DEF AuthEvent, Restore
<1> QED
    BY <1>1, <1>2, <1>3, <1>4, <1>5, <1>6, <1>7 DEF Next

\* The cache keeps what the invariant says.
THEOREM Inductive == Spec => []IInv
BY InitInv, NextInv, PTL DEF Spec

\* The shape of the state.
THEOREM TypeCorrect == Spec => []TypeOK
<1>1. IInv => TypeOK
    BY DEF IInv
<1> QED
    BY <1>1, Inductive, PTL

\* Data that misses an acknowledged write is invalidated, on its way to be
\* refreshed or marked by an error, in whatever order responses,
\* acknowledgements and session events arrive.
THEOREM StaleDataIsFlagged == Spec => []StaleIsFlagged
<1>1. IInv => StaleIsFlagged
    BY DEF IInv
<1> QED
    BY <1>1, Inductive, PTL
=============================================================================
