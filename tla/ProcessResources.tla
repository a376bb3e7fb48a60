--------------------------- MODULE ProcessResources ---------------------------
(***************************************************************************)
(* What the threads of one process share: the pool of connections, which   *)
(* refuses rather than waits, the rows their transactions lock, and the    *)
(* permission cache. A call is the sequence of what it does to them, each  *)
(* element an operation; an exception at any point gives back all it has.  *)
(***************************************************************************)
EXTENDS Integers, Sequences, FiniteSets

CONSTANTS
    Threads,   \* of the thread pool, and the event loop
    MaxConn,   \* DB_POOL_MAX
    Grants,    \* the (role, endpoint) pairs of tunnel_permission
    Served,    \* the calls the instance lets arrive
    NoThread

ASSUME ResourcesAssumption ==
    /\ IsFiniteSet(Threads) /\ NoThread \notin Threads /\ MaxConn \in Nat \ {0}
    /\ Served \subseteq {"accept", "reject", "close", "skip", "patch_permission", "login"}

Lockable == {"intervention", "request", "occurrence", "permission"}

------------------------------------------------------------------------------
(* Calls *)

Do(op) == [op |-> op, row |-> "none"]
Lock(row) == [op |-> "lock", row |-> row]

Borrow == Do("borrow")
Return == Do("return")
Reading == <<Borrow, Do("read"), Return>>
Transaction(writes) == <<Borrow>> \o writes \o <<Do("commit"), Return>>

\* PermissionCache.load: whatever fails in it is logged and goes no further.
Load == <<Do("try_borrow"), Do("read_rows"), Do("empty"), Do("fill"), Return>>

\* Each reads its row on a connection of its own before and after its
\* transaction; the validator of an acceptance borrows a second one.
Accept == Reading
          \o Transaction(Reading \o <<Lock("request"), Lock("occurrence")>>)
          \o Reading
Reject == Reading \o Transaction(<<Lock("occurrence"), Lock("request")>>) \o Reading

\* PUT /interventions and its triggers, then on_intervention_closed.
Close == Reading
         \o Transaction(<<Lock("intervention"), Lock("occurrence"), Lock("request")>>)
         \o Reading
         \o Transaction(<<Lock("request"), Lock("occurrence")>>)
Skip == Reading \o Transaction(<<Lock("occurrence")>>) \o Reading

\* The new value is committed, then the cache reloaded on another connection.
PatchPermission == <<Borrow, Lock("permission"), Do("commit"), Do("forget")>> \o Load \o <<Return>>

\* Between its reads and its writes a login asks the cache, which loads if need be.
Login == <<Borrow, Do("ask")>> \o Load \o <<Do("commit"), Return>>

Script == [accept |-> Accept, reject |-> Reject, close |-> Close, skip |-> Skip,
           patch_permission |-> PatchPermission, login |-> Login]

------------------------------------------------------------------------------

VARIABLES
    free,    \* connections the pool may still give
    broken,  \* history: those given that the server broke within a transaction
    call,    \* what each thread serves: the script, its next element, the
             \* connections it holds, and the rows a load has read
    locked,  \* the thread whose transaction has locked each row
    matrix,  \* tunnel_permission: the pairs allowed
    cache,   \* PermissionCache._cache
    loaded,  \* PermissionCache._loaded
    mixed    \* whether a load has gone on while another began or the matrix changed

pvars == <<free, broken, call, locked, matrix, cache, loaded, mixed>>
pool == <<free, broken>>
permissions == <<matrix, cache, loaded, mixed>>

NoCall == [kind |-> "none", pc |-> 1, held |-> 0, rows |-> {}]

PoolInit == /\ free = MaxConn /\ broken = 0
            /\ call = [t \in Threads |-> NoCall]
            /\ locked = [r \in Lockable |-> NoThread]
            /\ matrix \in SUBSET Grants
            /\ cache = matrix
            /\ loaded = TRUE
            /\ mixed = FALSE

Busy(t) == call[t].kind # "none"
Element(t) == Script[call[t].kind][call[t].pc]
At(t, op) == Busy(t) /\ Element(t).op = op

\* The thread's call after its current element, at element pc.
To(c, pc) == IF pc > Len(Script[c.kind]) THEN NoCall ELSE [c EXCEPT !.pc = pc]
Step(c) == To(c, c.pc + 1)

Holding(c, n) == [c EXCEPT !.held = @ + n]

\* The element that follows a load under way, and the load's return.
LoadReturn(c) == CHOOSE i \in c.pc .. Len(Script[c.kind]) :
                     /\ Script[c.kind][i] = Return
                     /\ \A j \in c.pc .. (i - 1) : Script[c.kind][j] # Return

Unlocked(t) == [r \in Lockable |-> IF locked[r] = t THEN NoThread ELSE locked[r]]

Loading(t) == Busy(t) /\ Element(t).op \in {"empty", "fill"}

------------------------------------------------------------------------------
(* Steps of a call *)

Begin(t, kind) ==
    /\ ~Busy(t)
    /\ call' = [call EXCEPT ![t] = [NoCall EXCEPT !.kind = kind]]
    /\ UNCHANGED <<pool, locked, permissions>>

\* get_connection
TakeConnection(t) ==
    /\ At(t, "borrow") \/ At(t, "try_borrow")
    /\ free > 0
    /\ free' = free - 1
    /\ call' = [call EXCEPT ![t] = Step(Holding(@, 1))]
    /\ UNCHANGED <<broken, locked, permissions>>

\* release_connection
GiveBack(t) ==
    /\ At(t, "return")
    /\ free' = free + 1
    /\ call' = [call EXCEPT ![t] = Step([Holding(@, -1) EXCEPT !.rows = {}])]
    /\ UNCHANGED <<broken, locked, permissions>>

\* A SELECT waits for no lock.
Read(t) ==
    /\ At(t, "read")
    /\ call' = [call EXCEPT ![t] = Step(@)]
    /\ UNCHANGED <<pool, locked, permissions>>

\* A statement that writes a row waits for the transaction that has locked it.
LockRow(t) ==
    /\ At(t, "lock")
    /\ locked[Element(t).row] \in {NoThread, t}
    /\ locked' = [locked EXCEPT ![Element(t).row] = t]
    /\ call' = [call EXCEPT ![t] = Step(@)]
    /\ UNCHANGED <<pool, permissions>>

\* Committing a permission sets it to allowed or not.
Commit(t) ==
    /\ At(t, "commit")
    /\ IF call[t].kind = "patch_permission"
       THEN /\ \E g \in Grants : matrix' \in {matrix \cup {g}, matrix \ {g}}
            /\ mixed' = (mixed \/ \E u \in Threads : Loading(u))
       ELSE UNCHANGED <<matrix, mixed>>
    /\ locked' = Unlocked(t)
    /\ call' = [call EXCEPT ![t] = Step(@)]
    /\ UNCHANGED <<pool, cache, loaded>>

\* Fault: a change of permission leaves the cache as it is.
KeepCache(t) ==
    /\ At(t, "forget")
    /\ call' = [call EXCEPT ![t] = To(@, LoadReturn(@) + 1)]
    /\ UNCHANGED <<pool, locked, permissions>>

\* reload sets _loaded to False first.
Forget(t) ==
    /\ At(t, "forget")
    /\ loaded' = FALSE
    /\ call' = [call EXCEPT ![t] = Step(@)]
    /\ UNCHANGED <<pool, locked, matrix, cache, mixed>>

\* permissions_for_role: the cache is used as it is when it is loaded.
Ask(t) ==
    /\ At(t, "ask")
    /\ call' = [call EXCEPT ![t] = IF loaded THEN To(@, LoadReturn(@) + 1) ELSE Step(@)]
    /\ UNCHANGED <<pool, locked, permissions>>

ReadRows(t) ==
    /\ At(t, "read_rows")
    /\ call' = [call EXCEPT ![t] = Step([@ EXCEPT !.rows = matrix])]
    /\ mixed' = (mixed \/ \E u \in Threads : Loading(u))
    /\ UNCHANGED <<pool, locked, matrix, cache, loaded>>

\* _cache = {}: other threads find it empty until it is filled.
Empty(t) ==
    /\ At(t, "empty")
    /\ cache' = {}
    /\ call' = [call EXCEPT ![t] = Step(@)]
    /\ UNCHANGED <<pool, locked, matrix, loaded, mixed>>

\* One row at a time into whatever _cache is by now, and _loaded at the end.
Fill(t) ==
    /\ At(t, "fill")
    /\ IF call[t].rows # {}
       THEN /\ \E g \in call[t].rows :
                   /\ cache' = cache \cup {g}
                   /\ call' = [call EXCEPT ![t].rows = @ \ {g}]
            /\ UNCHANGED loaded
       ELSE /\ loaded' = TRUE
            /\ call' = [call EXCEPT ![t] = Step(@)]
            /\ UNCHANGED cache
    /\ UNCHANGED <<pool, locked, matrix, mixed>>

------------------------------------------------------------------------------
(* Failures *)

\* An exception ends a call: the finally clauses roll its transaction back and
\* give back the connections given.
EndCall(t, given) ==
    /\ free' = free + given
    /\ locked' = Unlocked(t)
    /\ call' = [call EXCEPT ![t] = NoCall]
    /\ UNCHANGED permissions

\* What a statement of the call may raise at.
Exposed(t) == Busy(t) /\ Element(t).op \in {"borrow", "read", "lock", "commit"}

\* Fault: the outer connection of a call that fails is not given back.
FailLeaking(t) ==
    Exposed(t) /\ EndCall(t, IF call[t].held > 0 THEN 1 ELSE 0) /\ UNCHANGED broken

\* A statement fails.
CallFails(t) == Exposed(t) /\ EndCall(t, call[t].held) /\ UNCHANGED broken

\* Fault: an exhausted pool makes the caller wait.
RefuseNever(t) == FALSE

\* PoolError, raised as a DatabaseError.
Refuse(t) == At(t, "borrow") /\ free = 0 /\ EndCall(t, call[t].held) /\ UNCHANGED broken

\* In a load the refusal, or a failed statement, is caught: the cache stays
\* unloaded and the call goes on.
LoadRefused(t) ==
    /\ At(t, "try_borrow") /\ free = 0
    /\ call' = [call EXCEPT ![t] = To(@, LoadReturn(@) + 1)]
    /\ UNCHANGED <<pool, locked, permissions>>

LoadFails(t) ==
    /\ At(t, "read_rows")
    /\ call' = [call EXCEPT ![t] = To(@, LoadReturn(@))]
    /\ UNCHANGED <<pool, locked, permissions>>

\* statement_timeout: a statement that waits for a lock is cancelled after 30 s.
Timeout(t) == At(t, "lock") /\ EndCall(t, call[t].held) /\ UNCHANGED broken

\* The server breaks connections of the call off during a statement:
\* release_connection fails to roll them back and closes them without putconn,
\* which leaves them counted as given.
Break(t, n) ==
    /\ Exposed(t) /\ Element(t).op # "borrow"
    /\ EndCall(t, call[t].held - n)
    /\ broken' = broken + n

BreakLoad(t) ==
    /\ At(t, "read_rows")
    /\ call' = [call EXCEPT ![t] = To(Holding(@, -1), LoadReturn(@) + 1)]
    /\ broken' = broken + 1
    /\ UNCHANGED <<free, locked, permissions>>

Works(t) == \/ TakeConnection(t) \/ GiveBack(t) \/ Read(t) \/ LockRow(t) \/ Commit(t)
            \/ Forget(t) \/ Ask(t) \/ ReadRows(t) \/ Empty(t) \/ Fill(t)
            \/ Refuse(t) \/ LoadRefused(t)

PoolNext == \E t \in Threads : \/ \E kind \in Served : Begin(t, kind)
                               \/ Works(t) \/ Timeout(t) \/ CallFails(t) \/ LoadFails(t)
                               \/ \E n \in 1 .. call[t].held : Break(t, n)
                               \/ BreakLoad(t)

\* A thread that can go on does, and a statement that never gets its row is
\* cancelled in the end; nothing promises that a call arrives or fails.
PoolSpec == /\ PoolInit /\ [][PoolNext]_pvars
            /\ \A t \in Threads : WF_pvars(Works(t)) /\ WF_pvars(Timeout(t))

------------------------------------------------------------------------------
(* Properties *)

\* The pool, the locks, the cache and the calls keep their types.
PoolTypeOK ==
    /\ free \in 0 .. MaxConn /\ broken \in 0 .. MaxConn
    /\ \A t \in Threads :
           /\ call[t].kind \in DOMAIN Script \cup {"none"}
           /\ Busy(t) => call[t].pc \in DOMAIN Script[call[t].kind]
           /\ call[t].held \in 0 .. 2 /\ call[t].rows \subseteq Grants
    /\ locked \in [Lockable -> Threads \cup {NoThread}]
    /\ matrix \subseteq Grants /\ cache \subseteq Grants
    /\ loaded \in BOOLEAN /\ mixed \in BOOLEAN

\* Whatever fails, and however calls nest, no connection is given back twice, none is
\* lost but those the server broke off within a transaction, and a call that has
\* ended holds no connection and no row.
PoolConserved ==
    /\ free + broken + Cardinality({p \in Threads \X (1 .. 2) : p[2] <= call[p[1]].held}) = MaxConn
    /\ \A t \in Threads : ~Busy(t) => call[t].held = 0 /\ \A r \in Lockable : locked[r] # t

\* Unless two loads overlap or a permission changes during one, once the reload
\* that follows a change is over the cache says what the table says, even when
\* the reload itself failed for want of a connection.
CacheSettled ==
    (~mixed /\ loaded /\ \A t \in Threads : ~Loading(t) /\ ~At(t, "forget"))
        => cache = matrix

\* Every call ends, although calls that nest may find the pool empty, those that lock
\* the same rows in opposite orders may wait for each other, and broken connections
\* may have left nothing in the pool.
CallsEnd == \A t \in Threads : Busy(t) ~> ~Busy(t)
==============================================================================
