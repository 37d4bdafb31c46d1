---------------------------- MODULE ResourceCache ----------------------------
(***************************************************************************)
(* The browser's cache of API responses (resourceCache.ts), the hook that  *)
(* reads it (useApiResource.ts), the API client's writes that invalidate   *)
(* or prime it (apiClient.ts) and the session events that clear it         *)
(* (AuthProvider.tsx).                                                     *)
(*                                                                         *)
(* JavaScript runs each callback to its end, so an action is one callback  *)
(* with every synchronous call it makes, the listeners it notifies         *)
(* included.  Responses, acknowledgements and session events arrive in any *)
(* order.  The server is a counter: data is the number of writes it        *)
(* reflects.                                                               *)
(*                                                                         *)
(* Whatever raises entry.revision also aborts the entry's request, whose   *)
(* rejection then changes nothing; so an overtaken request is forgotten    *)
(* here, and a key has at most one request that counts.                    *)
(***************************************************************************)
EXTENDS Naturals

CONSTANTS Key,         \* resource keys
          Primes,      \* key -> keys its fetcher also primes from the response
          Write,       \* uploads, activations and planning runs
          Invalidates, \* write -> keys it invalidates when acknowledged
          Seeds,       \* write -> keys it primes with its own response
          Hook,        \* components that use one resource
          HookKey,
          User,
          NoUser,      \* 'anonymous'
          MaxServer    \* bound on committed writes

ASSUME BoundAssumption == MaxServer \in Nat
ASSUME NoUserAssumption == NoUser \notin User
ASSUME HookAssumption == HookKey \in [Hook -> Key]
ASSUME PrimesAssumption == \A k \in Key : k \notin Primes[k]

\* fetchLocationView primes the locations, status, inventory and run of its
\* location: every write that invalidates one of them invalidates the view.
ASSUME CoverAssumption == \A w \in Write, k \in Key :
                             Primes[k] \cap Invalidates[w] # {} => k \in Invalidates[w]

\* createPlanningRun primes the run it created, which no write invalidates.
ASSUME SeedsAssumption == \A w, x \in Write : Seeds[w] \cap Invalidates[x] \subseteq Invalidates[w]

VARIABLES server,   \* writes committed so far
          entry,    \* key -> its cache entry under the active owner
          request,  \* key -> the request behind entry.inFlight
          writes,   \* state of each write
          sub,      \* what a component's listener is attached to
          owner,    \* activeOwner
          signedIn, \* status 'signed-in': RequireAuth renders the pages
          restored, \* getSession() has resolved
          acked     \* history: newest write on each key acknowledged since the cache was cleared

sessionVars == <<owner, signedIn, restored>>
vars == <<server, entry, request, writes, sub, acked, sessionVars>>

EmptyEntry == [hasData |-> FALSE, data |-> 0, invalidated |-> FALSE, error |-> FALSE]

\* A request is sent, and answered with what the server had when it read.
NoRequest == [stage |-> "none", seen |-> 0]
Sent == [NoRequest EXCEPT !.stage = "sent"]

InFlight(k) == request[k] # NoRequest

IdleWrite == [stage |-> "idle", at |-> 0]

Init == /\ server = 0
        /\ entry = [k \in Key |-> EmptyEntry]
        /\ request = [k \in Key |-> NoRequest]
        /\ writes = [w \in Write |-> IdleWrite]
        /\ sub = [h \in Hook |-> "none"]
        /\ owner = NoUser /\ signedIn = FALSE /\ restored = FALSE
        /\ acked = [k \in Key |-> 0]

-----------------------------------------------------------------------------
(* One entry *)

Filled(n) == [EmptyEntry EXCEPT !.hasData = TRUE, !.data = n]

Invalid(e) == [e EXCEPT !.invalidated = TRUE, !.error = FALSE]

Prime(entries, keys, n) == [k \in Key |-> IF k \in keys THEN Filled(n) ELSE entries[k]]

\* Mutant: nothing stops a request that is on its way.
AbortNothing(keys) == request

\* controller.abort() for the requests under these keys.
Abort(keys) == [k \in Key |-> IF k \in keys THEN NoRequest ELSE request[k]]

\* Mutant: listeners are not told of an invalidation.
HeardByNobody == {}

\* Keys with a listener, which reloads an invalidated entry at once.
Heard == {HookKey[h] : h \in {x \in Hook : sub[x] = "live"}}

-----------------------------------------------------------------------------
(* useApiResource *)

\* loadResource: an in-flight request is shared, and fresh data that is not
\* invalidated is reused unless forced.  A new request takes the old error away.
Load(k, force) ==
    IF InFlight(k) \/ (entry[k].hasData /\ ~entry[k].invalidated /\ ~force)
    THEN UNCHANGED <<entry, request>>
    ELSE /\ entry' = [entry EXCEPT ![k].error = FALSE]
         /\ request' = [request EXCEPT ![k] = Sent]

\* A page opens: subscribe, then load.  Data past its fresh window is loaded
\* as if forced.
Mount(h, expired) == /\ signedIn
                     /\ sub[h] = "none"
                     /\ sub' = [sub EXCEPT ![h] = "live"]
                     /\ Load(HookKey[h], expired)
                     /\ UNCHANGED <<server, writes, acked, sessionVars>>

Unmount(h) == /\ sub[h] # "none"
              /\ sub' = [sub EXCEPT ![h] = "none"]
              /\ UNCHANGED <<server, entry, request, writes, acked, sessionVars>>

\* The page's own refresh button.
Refetch(h) == /\ sub[h] # "none"
              /\ Load(HookKey[h], TRUE)
              /\ UNCHANGED <<server, writes, sub, acked, sessionVars>>

-----------------------------------------------------------------------------
(* Requests *)

\* The server reads; the response is on its way back.
Serve(k) == /\ request[k].stage = "sent"
            /\ request' = [request EXCEPT ![k] = [stage |-> "answered", seen |-> server]]
            /\ UNCHANGED <<server, entry, writes, sub, acked, sessionVars>>

\* The response arrives.  The fetcher primes other keys first, which aborts
\* what they had in flight; then the entry takes the data itself.
Resolve(k) == /\ request[k].stage = "answered"
              /\ entry' = Prime(entry, Primes[k] \cup {k}, request[k].seen)
              /\ request' = Abort(Primes[k] \cup {k})
              /\ UNCHANGED <<server, writes, sub, acked, sessionVars>>

\* A failure shows as an error and ends the invalidation, so that the listener
\* does not retry for ever.
Fail(k) == /\ InFlight(k)
           /\ entry' = [entry EXCEPT ![k].invalidated = FALSE, ![k].error = TRUE]
           /\ request' = Abort({k})
           /\ UNCHANGED <<server, writes, sub, acked, sessionVars>>

-----------------------------------------------------------------------------
(* Writes: useMutation sends one at a time of each kind. *)

Send(w) == /\ signedIn
           /\ writes[w].stage = "idle"
           /\ writes' = [writes EXCEPT ![w].stage = "sent"]
           /\ UNCHANGED <<server, entry, request, sub, acked, sessionVars>>

CommitWrite(w) == /\ writes[w].stage = "sent"
                  /\ server < MaxServer
                  /\ server' = server + 1
                  /\ writes' = [writes EXCEPT ![w] = [stage |-> "committed", at |-> server + 1]]
                  /\ UNCHANGED <<entry, request, sub, acked, sessionVars>>

\* The acknowledgement arrives: prime, then invalidate; the listeners of the
\* invalidated keys start to load them in the same callback.
Acknowledge(w) ==
    /\ writes[w].stage = "committed"
    /\ LET keys == Invalidates[w]
           n == writes[w].at
           seeded == Prime(entry, Seeds[w], n)
           aborted == Abort(keys \cup Seeds[w])
       IN /\ entry' = [k \in Key |-> IF k \in keys THEN Invalid(seeded[k]) ELSE seeded[k]]
          /\ request' = [k \in Key |-> IF k \in keys \cap Heard THEN Sent ELSE aborted[k]]
          /\ acked' = [k \in Key |-> IF k \in keys /\ acked[k] < n THEN n ELSE acked[k]]
    /\ writes' = [writes EXCEPT ![w] = IdleWrite]
    /\ UNCHANGED <<server, sub, sessionVars>>

\* The write fails, or its reply is lost: an error is shown, nothing is invalidated.
WriteFails(w) == /\ writes[w].stage # "idle"
                 /\ writes' = [writes EXCEPT ![w] = IdleWrite]
                 /\ UNCHANGED <<server, entry, request, sub, acked, sessionVars>>

-----------------------------------------------------------------------------
(* Sessions *)

\* clearResourceCache: requests are aborted and entries forgotten.
Clear == /\ entry' = [k \in Key |-> EmptyEntry]
         /\ request' = Abort(Key)
         /\ acked' = [k \in Key |-> 0]

\* A listener of a forgotten entry is never called again.
Orphaned == [h \in Hook |-> IF sub[h] = "live" THEN "orphan" ELSE sub[h]]
Closed == [h \in Hook |-> "none"]

\* Mutant: the status is not reset, and the pages stay open.
SignOutOpen == /\ signedIn
               /\ signedIn' = FALSE
               /\ Clear
               /\ UNCHANGED <<server, writes, sub, owner, restored>>

\* Sign-out or a rejected token: the pages close; activeOwner stays until the
\* auth client reports the end of the session.
SignOut == /\ signedIn
           /\ signedIn' = FALSE
           /\ Clear
           /\ sub' = Closed
           /\ UNCHANGED <<server, writes, owner, restored>>

\* applySession with the account u or none: setResourceCacheOwner clears the
\* cache when the account is another one.  The pages close only without one.
ApplySession(u, clear) ==
    /\ owner' = u
    /\ signedIn' = (u # NoUser)
    /\ IF clear \/ u # owner
       THEN Clear /\ sub' = IF u = NoUser THEN Closed ELSE Orphaned
       ELSE UNCHANGED <<entry, request, acked>> /\ sub' = IF u = NoUser THEN Closed ELSE sub
    /\ UNCHANGED <<server, writes>>

\* onAuthStateChange: a sign-in, another account, or the end of the session.
AuthEvent(u) == ApplySession(u, FALSE) /\ UNCHANGED restored

\* getSession() resolves, before or after the first event.
Restore(u) == ~restored /\ restored' = TRUE /\ ApplySession(u, TRUE)

-----------------------------------------------------------------------------
Next == \/ \E h \in Hook, expired \in BOOLEAN : Mount(h, expired)
        \/ \E h \in Hook : Unmount(h) \/ Refetch(h)
        \/ \E k \in Key : Serve(k) \/ Resolve(k) \/ Fail(k)
        \/ \E w \in Write : Send(w) \/ CommitWrite(w) \/ Acknowledge(w) \/ WriteFails(w)
        \/ SignOut
        \/ \E u \in User \cup {NoUser} : AuthEvent(u) \/ Restore(u)

Spec == Init /\ [][Next]_vars

\* The network answers every request in the end, one way or another.
FairSpec == Spec /\ \A k \in Key : WF_vars(Serve(k) \/ Resolve(k) \/ Fail(k))

-----------------------------------------------------------------------------
(* Properties *)

TypeOK ==
    /\ server \in 0..MaxServer
    /\ owner \in User \cup {NoUser}
    /\ {signedIn, restored} \subseteq BOOLEAN
    /\ sub \in [Hook -> {"none", "live", "orphan"}]
    /\ \A h \in Hook : sub[h] # "none" => signedIn
    /\ entry \in [Key -> [hasData : BOOLEAN, data : 0..server,
                          invalidated : BOOLEAN, error : BOOLEAN]]
    /\ request \in [Key -> [stage : {"none", "sent", "answered"}, seen : 0..server]]
    /\ writes \in [Write -> [stage : {"idle", "sent", "committed"}, at : 0..server]]
    /\ acked \in [Key -> 0..server]

\* Data that misses a write this session has seen acknowledged.
Stale(k) == entry[k].hasData /\ entry[k].data < acked[k]

\* Stale data is never shown as current: it is invalidated, being refreshed,
\* or marked by an error -- even when a response that was read before a write
\* arrives after it, directly or through another resource that primes this one.
StaleIsFlagged == \A k \in Key : Stale(k) => entry[k].invalidated \/ InFlight(k) \/ entry[k].error

\* An open page that listens to stale data gets fresh data or an error, however
\* acknowledgements and responses overtake each other.
StaleIsRefreshed ==
    \A h \in Hook : LET k == HookKey[h] IN
        sub[h] = "live" /\ Stale(k) ~> ~Stale(k) \/ entry[k].error \/ sub[h] # "live"

\* "The subscription ... only has to ask for a re-render when the cache entry
\* changes": an open page listens to the entry it reads.
OpenPagesListen == \A h \in Hook : sub[h] # "orphan"
=============================================================================
