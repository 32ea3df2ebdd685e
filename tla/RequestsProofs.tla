--------------------------- MODULE RequestsProofs ---------------------------
(***************************************************************************)
(* What withTenant() and handle() guarantee for every number of requests,  *)
(* flushes, clients and server connections, and for all programs: no call  *)
(* meets another tenant's context or rows, every call leaves all of its    *)
(* rows or none, the pool implements Transactions, and what a client is    *)
(* told is what happened.                                                  *)
(*                                                                         *)
(* The argument follows the connections.  A client belongs to one call, a  *)
(* server connection to one client, and a connection that nobody has is    *)
(* clean: no transaction, no rows, no tenant.  So a call's transaction     *)
(* starts on a clean connection, and until it ends only the call changes   *)
(* its session.                                                            *)
(*                                                                         *)
(* Then the authoring routes (Catalog.tla): what they store refers to what *)
(* is there, and what they show is whole.                                  *)
(***************************************************************************)
EXTENDS Requests, Catalog, SequenceTheorems, TLAPS

(* A client is held by one call, from Connect to the end.                  *)
ClientsOK ==
  /\ \A c \in Calls : client[c] = NULL <=> pc[c] \in {"idle", "connect", "done"}
  /\ \A c, d \in Calls : c # d /\ client[c] # NULL => client[c] # client[d]

(* A server connection serves one client, which a call in its transaction  *)
(* holds.                                                                  *)
LinksOK ==
  /\ \A k, j \in Clients : k # j /\ link[k] # NULL => link[k] # link[j]
  /\ \A k \in Clients : link[k] # NULL =>
       \E c \in Calls : client[c] = k /\ pc[c] \in {"context", "run", "rollback"}
  /\ \A c \in Calls : pc[c] \in {"context", "run"} => link[client[c]] # NULL

(* No tenant, no rows.                                                     *)
Blank(session) == session.pending = {} /\ session.setting \in {NULL, EMPTY}

InContext(c) ==
  /\ SessionOf(c).tx = "open"
  /\ CurrentTenant(SessionOf(c).setting) = TenantOf[c]
  /\ SessionOf(c).pending = RowsUpTo(c, program[c], step[c])

(* A free connection is clean, and a call's is the call's.                 *)
SessionsOK ==
  /\ \A s \in Servers : (\A k \in Clients : link[k] # s) =>
       Blank(server[s]) /\ server[s].tx = "none"
  /\ \A c \in Calls : pc[c] = "context" =>
       Blank(SessionOf(c)) /\ SessionOf(c).tx = "open" /\ TenantOf[c] # NULL
  /\ \A c \in Calls : pc[c] = "run" => InContext(c)

(* How far a call is, and what has become of it.                           *)
CallsOK ==
  \A c \in Calls :
    /\ step[c] \in 0 .. Len(program[c])
    /\ pc[c] \in {"idle", "connect", "begin", "context"} => step[c] = 0
    /\ pc[c] = "idle" => program[c] = <<>> /\ outcome[c] = "new"
    /\ pc[c] # "idle" => program[c] \in Programs[c]
    /\ pc[c] \in {"connect", "begin", "context", "run"} => outcome[c] = "open"
    /\ pc[c] = "rollback" => outcome[c] \in {"problem", "error"}
    /\ pc[c] = "done" => outcome[c] \in {"ok", "problem", "error", "gone"}

RowsOf(c) == {r \in rows : r.by = c}

(* Rows are stored by the COMMIT alone, all at once, in their tenant.      *)
RowsOK ==
  \A c \in Calls :
    /\ RowsOf(c) # {} => pc[c] \in {"rollback", "done"}
    /\ RowsOf(c) \in {{}, RowsMade(c, program[c])}
    /\ outcome[c] = "ok" => RowsOf(c) = RowsMade(c, program[c])
    /\ RowsOf(c) # {} => outcome[c] = "ok" \/ (outcome[c] = "error" /\ c \in unsure)
    /\ \A r \in seen[c] : r.tenant = TenantOf[c]

PoolInv == PoolTypeOK /\ ClientsOK /\ LinksOK /\ SessionsOK /\ CallsOK /\ RowsOK

-----------------------------------------------------------------------------
(* Rows and sessions.                                                      *)

(* The rows of a program are rows, of the call and of its tenant.          *)
LEMMA RowsAreTheCalls ==
  ASSUME NEW c \in Calls, NEW p \in Programs[c], NEW n \in 0 .. Len(p)
  PROVE  /\ RowsUpTo(c, p, n) \subseteq Row
         /\ \A r \in RowsUpTo(c, p, n) : r.by = c /\ r.tenant = TenantOf[c]
<1>1. p \in Seq(Statement) /\ Len(p) \in Nat
  BY StatementsAssumption
<1>2. ASSUME NEW i \in 1 .. n, p[i].op = "insert"
      PROVE  /\ RowMade(c, p, i) \in Row
             /\ RowMade(c, p, i).by = c
             /\ RowMade(c, p, i).tenant = TenantOf[c]
  <2>1. i \in 1 .. Len(p) /\ i \in Nat
    BY <1>1
  <2>2. p[i] \in Statement
    BY <1>1, <2>1
  <2>3. TenantOf[c] \in Tenants
    BY <1>2, <2>1, StatementsAssumption
  <2> QED
    BY <2>1, <2>2, <2>3 DEF RowMade, Row, Statement
<1> QED
  BY <1>2 DEF RowsUpTo

(* Statement by statement.                                                 *)
LEMMA NoneYet == \A c, p : RowsUpTo(c, p, 0) = {}
  BY DEF RowsUpTo

LEMMA OneMore ==
  ASSUME NEW c \in Calls, NEW p \in Programs[c], NEW n \in 0 .. Len(p), n < Len(p)
  PROVE  /\ n + 1 \in 0 .. Len(p)
         /\ p[n + 1].op = "insert" => RowsUpTo(c, p, n + 1) = RowsUpTo(c, p, n) \cup {RowMade(c, p, n + 1)}
         /\ p[n + 1].op # "insert" => RowsUpTo(c, p, n + 1) = RowsUpTo(c, p, n)
<1>1. Len(p) \in Nat
  BY StatementsAssumption
<1>2. \A j : j \in 1 .. n + 1 <=> j \in 1 .. n \/ j = n + 1
  BY <1>1
<1>3. {j \in 1 .. n + 1 : p[j].op = "insert"} =
        {j \in 1 .. n : p[j].op = "insert"} \cup {j \in {n + 1} : p[j].op = "insert"}
  BY <1>2
<1> QED
  BY <1>1, <1>3 DEF RowsUpTo

(* A connection's session after its transaction is clean.                  *)
LEMMA EndedIsClean ==
  ASSUME NEW session \in Session
  PROVE  /\ Ended(session) \in Session
         /\ Blank(Ended(session)) /\ Ended(session).tx = "none"
  BY DEF Ended, SettingAfter, Session, Blank

LEMMA ColdIsClean == Cold \in Session /\ Blank(Cold) /\ Cold.tx = "none"
  BY DEF Cold, Session, Blank

(* A call in its transaction has a client and a connection of its own.     *)
LEMMA Connected ==
  ASSUME PoolTypeOK, ClientsOK, LinksOK, NEW c \in Calls
  PROVE  /\ pc[c] \notin {"idle", "connect", "done"} => client[c] \in Clients
         /\ pc[c] \in {"context", "run"} =>
              link[client[c]] \in Servers /\ SessionOf(c) \in Session
         /\ pc[c] \in {"context", "run"} =>
              \A d \in Calls : d # c /\ pc[d] \in {"context", "run"} =>
                link[client[d]] # link[client[c]]
         /\ pc[c] = "begin" => link[client[c]] = NULL
  BY PoolAssumption DEF PoolTypeOK, ClientsOK, LinksOK, SessionOf

(* A query changes the call's connection and no other.                     *)
LEMMA QueryFrame ==
  ASSUME PoolTypeOK, ClientsOK, LinksOK, NEW c \in Calls,
         pc[c] \notin {"idle", "connect", "done"},
         NEW s \in ServersFor(client[c]), NEW session \in Session, Query(c, s, session)
  PROVE  /\ s \in Servers
         /\ \A k \in Clients : k # client[c] => link'[k] = link[k] /\ link[k] # s
         /\ link'[client[c]] = IF session.tx = "none" THEN NULL ELSE s
         /\ link' \in [Clients -> Servers \cup {NULL}]
         /\ \A t \in Servers : t # s => server'[t] = server[t]
         /\ server'[s] = session
         /\ server' \in [Servers -> Session]
         /\ link[client[c]] # NULL => s = link[client[c]]
         /\ \A d \in Calls : d # c /\ client[d] # NULL => client[d] \in Clients /\ client[d] # client[c]
<1>1. client[c] \in Clients
  BY Connected
<1>2. s \in Servers /\ \A k \in Clients : k # client[c] => link[k] # s
  BY <1>1, PoolAssumption DEF ServersFor, LinksOK, PoolTypeOK
<1> QED
  BY <1>1, <1>2 DEF Query, PoolTypeOK, ServersFor, ClientsOK

(* So does the loss of a connection.                                       *)
LEMMA DropFrame ==
  ASSUME PoolTypeOK, ClientsOK, LinksOK, NEW c \in Calls,
         pc[c] \notin {"idle", "connect", "done"}, DropLink(client[c])
  PROVE  /\ \A k \in Clients : k # client[c] => link'[k] = link[k]
         /\ link'[client[c]] = NULL
         /\ link' \in [Clients -> Servers \cup {NULL}]
         /\ \A t \in Servers : t # link[client[c]] => server'[t] = server[t]
         /\ link[client[c]] # NULL => server'[link[client[c]]] = Cold
         /\ server' \in [Servers -> Session]
         /\ \A d \in Calls : d # c /\ client[d] # NULL => client[d] \in Clients /\ client[d] # client[c]
  BY Connected, ColdIsClean, PoolAssumption DEF DropLink, PoolTypeOK, LinksOK, ClientsOK

-----------------------------------------------------------------------------
(* What each step does to the connections.                                 *)

(* The query of a step, and the session it leaves.                         *)
LEMMA BeginQuery ==
  ASSUME PoolInv, NEW c \in Calls, Begin(c)
  PROVE  \E s \in ServersFor(client[c]) :
           /\ s \in Servers /\ Blank(server[s]) /\ server[s].tx = "none"
           /\ [server[s] EXCEPT !.tx = "open"] \in Session
           /\ Query(c, s, [server[s] EXCEPT !.tx = "open"])
<1>1. PICK s \in ServersFor(client[c]) :
        Query(c, s, IF server[s].tx = "none" THEN [server[s] EXCEPT !.tx = "open"] ELSE server[s])
  BY DEF Begin
<1>2. link[client[c]] = NULL /\ s \in Servers /\ \A k \in Clients : link[k] # s
  BY <1>1, Connected DEF Begin, PoolInv, ServersFor
<1>3. Blank(server[s]) /\ server[s].tx = "none" /\ server[s] \in Session
  BY <1>2 DEF PoolInv, SessionsOK, PoolTypeOK
<1>4. [server[s] EXCEPT !.tx = "open"] \in Session
  BY <1>3 DEF Session
<1> QED
  BY <1>1, <1>2, <1>3, <1>4

LEMMA SetConfigQuery ==
  ASSUME PoolInv, NEW c \in Calls, SetConfig(c)
  PROVE  /\ TenantOf[c] \in Tenants
         /\ link[client[c]] \in ServersFor(client[c])
         /\ [SessionOf(c) EXCEPT !.setting = TenantOf[c]] \in Session
         /\ Blank(SessionOf(c)) /\ SessionOf(c).tx = "open"
         /\ Query(c, link[client[c]], [SessionOf(c) EXCEPT !.setting = TenantOf[c]])
<1>1. /\ client[c] \in Clients /\ link[client[c]] \in Servers
      /\ SessionOf(c) \in Session /\ SessionOf(c).tx = "open"
      /\ Blank(SessionOf(c)) /\ TenantOf[c] # NULL
      /\ link[client[c]] # NULL
  BY Connected, PoolAssumption DEF SetConfig, PoolInv, SessionsOK
<1>2. ServersFor(client[c]) = {link[client[c]]}
  BY <1>1 DEF ServersFor
<1>3. TenantOf[c] \in Tenants
  BY <1>1, StatementsAssumption
<1>4. /\ [SessionOf(c) EXCEPT !.setting = TenantOf[c]] \in Session
      /\ [SessionOf(c) EXCEPT !.setting = TenantOf[c]].tx = "open"
  BY <1>1, <1>3 DEF Session
<1> QED
  BY <1>1, <1>2, <1>3, <1>4 DEF SetConfig, SessionOf

LEMMA CommitQuery ==
  ASSUME PoolInv, NEW c \in Calls, Commit(c)
  PROVE  /\ link[client[c]] \in ServersFor(client[c])
         /\ Ended(SessionOf(c)) \in Session /\ Ended(SessionOf(c)).tx = "none"
         /\ Query(c, link[client[c]], Ended(SessionOf(c)))
<1>1. link[client[c]] \in Servers /\ SessionOf(c) \in Session /\ link[client[c]] # NULL
  BY Connected, PoolAssumption DEF Commit, AtCommit, PoolInv
<1> QED
  BY <1>1, EndedIsClean DEF Commit, ServersFor

LEMMA RollbackQuery ==
  ASSUME PoolInv, NEW c \in Calls, Rollback(c), link[client[c]] # NULL
  PROVE  /\ link[client[c]] \in ServersFor(client[c])
         /\ Ended(SessionOf(c)) \in Session /\ Ended(SessionOf(c)).tx = "none"
         /\ Query(c, link[client[c]], Ended(SessionOf(c)))
<1>1. client[c] \in Clients
  BY Connected DEF Rollback, PoolInv
<1>2. link[client[c]] \in Servers /\ SessionOf(c) \in Session
  BY <1>1 DEF PoolInv, PoolTypeOK, SessionOf
<1> QED
  BY <1>2, EndedIsClean DEF Rollback, RolledBack, ServersFor

(* A statement that PostgreSQL refuses, or an INSERT, changes the session  *)
(* of its call alone.                                                      *)
LEMMA SessionFrame ==
  ASSUME PoolInv, NEW c \in Calls, pc[c] = "run", UNCHANGED <<link, client>>,
         NEW session \in Session,
         server' = [server EXCEPT ![link[client[c]]] = session]
  PROVE  /\ server' \in [Servers -> Session]
         /\ SessionOf(c)' = session
         /\ \A t \in Servers : t # link[client[c]] => server'[t] = server[t]
         /\ \A d \in Calls : d # c /\ pc[d] \in {"context", "run"} => SessionOf(d)' = SessionOf(d)
<1>1. link[client[c]] \in Servers
  BY Connected DEF PoolInv
<1>2. \A d \in Calls : d # c /\ pc[d] \in {"context", "run"} =>
        link[client[d]] # link[client[c]] /\ link[client[d]] \in Servers
  BY Connected DEF PoolInv
<1> QED
  BY <1>1, <1>2 DEF SessionOf, PoolInv, PoolTypeOK

LEMMA RefusedSession ==
  ASSUME PoolInv, NEW c \in Calls, pc[c] = "run", Refused(c)
  PROVE  \E session \in Session : server' = [server EXCEPT ![link[client[c]]] = session]
<1>1. SessionOf(c) \in Session
  BY Connected DEF PoolInv
<1>2. [SessionOf(c) EXCEPT !.tx = "failed"] \in Session
  BY <1>1 DEF Session
<1> QED
  BY <1>2 DEF Refused, SessionOf

LEMMA InsertSession ==
  ASSUME PoolInv, NEW c \in Calls, pc[c] = "run", step[c] < Len(program[c]),
         program[c][step[c] + 1].op = "insert",
         server' = [server EXCEPT ![link[client[c]]].pending =
                       @ \cup {RowMade(c, program[c], step[c] + 1)}]
  PROVE  LET more == [SessionOf(c) EXCEPT !.pending =
                         RowsUpTo(c, program[c], step[c] + 1)]
         IN  more \in Session /\ server' = [server EXCEPT ![link[client[c]]] = more]
<1> DEFINE more == [SessionOf(c) EXCEPT !.pending = RowsUpTo(c, program[c], step[c] + 1)]
<1>1. SessionOf(c) \in Session
  BY Connected DEF PoolInv
<1>2. program[c] \in Programs[c] /\ step[c] \in 0 .. Len(program[c])
  BY DEF PoolInv, CallsOK
<1>3. /\ SessionOf(c).pending \cup {RowMade(c, program[c], step[c] + 1)} =
           RowsUpTo(c, program[c], step[c] + 1)
      /\ RowsUpTo(c, program[c], step[c] + 1) \subseteq Row
  BY <1>2, OneMore, RowsAreTheCalls DEF PoolInv, SessionsOK, InContext
<1>4. more \in Session
  BY <1>1, <1>3 DEF Session
<1>5. server' = [server EXCEPT ![link[client[c]]] = more]
  BY <1>3 DEF SessionOf
<1> QED
  BY <1>4, <1>5

-----------------------------------------------------------------------------
(* The steps, one invariant after the other.                               *)

LEMMA PoolTypeStep == PoolInv /\ [PoolNext]_poolVars => PoolTypeOK'
<1> SUFFICES ASSUME PoolInv, [PoolNext]_poolVars PROVE PoolTypeOK'
  OBVIOUS
<1>t. PoolTypeOK /\ ClientsOK /\ LinksOK
  BY DEF PoolInv
<1>1. ASSUME NEW c \in Calls, NEW p \in Programs[c], Call(c, p)
      PROVE  PoolTypeOK'
  BY <1>1, <1>t DEF Call, PoolTypeOK
<1>2. ASSUME NEW c \in Calls, Discard(c)
      PROVE  PoolTypeOK'
  BY <1>2, <1>t DEF Discard, PoolTypeOK
<1>3. ASSUME NEW c \in Calls, Connect(c)
      PROVE  PoolTypeOK'
  BY <1>3, <1>t DEF Connect, IdleClients, AfterStage, PoolTypeOK
<1>4. ASSUME NEW c \in Calls, ConnectFails(c)
      PROVE  PoolTypeOK'
  BY <1>4, <1>t DEF ConnectFails, PoolTypeOK
<1>5. ASSUME NEW c \in Calls, Begin(c)
      PROVE  PoolTypeOK'
  <2>1. server' \in [Servers -> Session] /\ link' \in [Clients -> Servers \cup {NULL}]
    BY <1>5, <1>t, BeginQuery, QueryFrame DEF Begin
  <2> QED
    BY <1>5, <2>1, <1>t DEF Begin, AfterStage, PoolTypeOK
<1>6. ASSUME NEW c \in Calls, SetConfig(c)
      PROVE  PoolTypeOK'
  <2>1. server' \in [Servers -> Session] /\ link' \in [Clients -> Servers \cup {NULL}]
    BY <1>6, <1>t, SetConfigQuery, QueryFrame DEF SetConfig
  <2> QED
    BY <1>6, <2>1, <1>t DEF SetConfig, AfterStage, PoolTypeOK
<1>7. ASSUME NEW c \in Calls, Select(c)
      PROVE  PoolTypeOK'
  <2>1. SessionOf(c) \in Session
    BY <1>7, <1>t, Connected DEF Select, Running
  <2>2. Found(c) \subseteq Row
    BY <2>1, <1>t DEF Found, Visible, Session, PoolTypeOK
  <2>3. step[c] + 1 \in Nat
    BY <1>t DEF PoolTypeOK
  <2> QED
    BY <1>7, <2>2, <2>3, <1>t DEF Select, Fail, PoolTypeOK
<1>8. ASSUME NEW c \in Calls, Refused(c), pc[c] = "run",
             UNCHANGED <<program, step, client, link, rows, seen, unsure>>
      PROVE  PoolTypeOK'
  <2>1. server' \in [Servers -> Session]
    BY <1>8, RefusedSession, SessionFrame
  <2> QED
    BY <1>8, <2>1, <1>t DEF Refused, Fail, PoolTypeOK
<1>9. ASSUME NEW c \in Calls, Insert(c)
      PROVE  PoolTypeOK'
  <2>1. CASE Refused(c) /\ UNCHANGED step
    BY <1>9, <2>1, <1>8 DEF Insert, Running
  <2>2. CASE /\ server' = [server EXCEPT ![link[client[c]]].pending =
                             @ \cup {RowMade(c, program[c], step[c] + 1)}]
             /\ step' = [step EXCEPT ![c] = @ + 1]
             /\ UNCHANGED <<pc, outcome>>
    <3>1. server' \in [Servers -> Session]
      BY <1>9, <2>2, InsertSession, SessionFrame DEF Insert, Running
    <3>2. step[c] + 1 \in Nat
      BY <1>t DEF PoolTypeOK
    <3> QED
      BY <1>9, <2>2, <3>1, <3>2, <1>t DEF Insert, PoolTypeOK
  <2> QED
    BY <1>9, <2>1, <2>2 DEF Insert
<1>10. ASSUME NEW c \in Calls, StatementFails(c)
       PROVE  PoolTypeOK'
  BY <1>10, <1>8 DEF StatementFails
<1>11. ASSUME NEW c \in Calls, HandlerThrows(c)
       PROVE  PoolTypeOK'
  BY <1>11, <1>t DEF HandlerThrows, Fail, PoolTypeOK
<1>12. ASSUME NEW c \in Calls, AtCommit(c)
       PROVE  Committed(SessionOf(c)) \subseteq Row /\ SessionOf(c).pending \subseteq Row
              /\ \A r \in SessionOf(c).pending : r.by \in Calls
  <2>1. SessionOf(c) \in Session
    BY <1>12, <1>t, Connected DEF AtCommit
  <2> QED
    BY <2>1, <1>t DEF Committed, Session, Row, PoolTypeOK
<1>13. ASSUME NEW c \in Calls, Commit(c)
       PROVE  PoolTypeOK'
  <2>1. server' \in [Servers -> Session] /\ link' \in [Clients -> Servers \cup {NULL}]
    BY <1>13, <1>t, CommitQuery, QueryFrame DEF Commit, AtCommit
  <2>2. rows' \subseteq Row
    BY <1>13, <1>12 DEF Commit
  <2> QED
    BY <1>13, <2>1, <2>2, <1>t DEF Commit, Finish, PoolTypeOK
<1>14. ASSUME NEW c \in Calls, CommitUnacknowledged(c)
       PROVE  PoolTypeOK'
  <2>1. server' \in [Servers -> Session] /\ link' \in [Clients -> Servers \cup {NULL}]
    BY <1>14, <1>t, DropFrame DEF CommitUnacknowledged, AtCommit
  <2>2. rows' \subseteq Row /\ unsure' \subseteq Calls
    BY <1>14, <1>12, <1>t DEF CommitUnacknowledged, PoolTypeOK
  <2> QED
    BY <1>14, <2>1, <2>2, <1>t DEF CommitUnacknowledged, Fail, PoolTypeOK
<1>15. ASSUME NEW c \in Calls, ConnectionLost(c)
       PROVE  PoolTypeOK'
  <2>1. server' \in [Servers -> Session] /\ link' \in [Clients -> Servers \cup {NULL}]
    BY <1>15, <1>t, DropFrame DEF ConnectionLost
  <2> QED
    BY <1>15, <2>1, <1>t DEF ConnectionLost, Fail, PoolTypeOK
<1>16. ASSUME NEW c \in Calls, Rollback(c)
       PROVE  PoolTypeOK'
  <2>1. server' \in [Servers -> Session] /\ link' \in [Clients -> Servers \cup {NULL}]
    <3>1. CASE link[client[c]] = NULL
      BY <1>16, <3>1, <1>t DEF Rollback, PoolTypeOK
    <3>2. CASE link[client[c]] # NULL
      BY <1>16, <3>2, <1>t, RollbackQuery, QueryFrame DEF Rollback
    <3> QED
      BY <3>1, <3>2
  <2> QED
    BY <1>16, <2>1, <1>t DEF Rollback, Finish, PoolTypeOK
<1>17. CASE Crash
  BY <1>17, <1>t, ColdIsClean DEF Crash, PoolTypeOK
<1>18. CASE UNCHANGED poolVars
  BY <1>18, <1>t DEF poolVars, PoolTypeOK
<1> QED
  BY <1>1, <1>2, <1>3, <1>4, <1>5, <1>6, <1>7, <1>9, <1>10, <1>11, <1>13, <1>14, <1>15,
     <1>16, <1>17, <1>18 DEF PoolNext, CallStep

(* Only Connect takes a client, and an idle one.                           *)
LEMMA ClientsStep == PoolInv /\ [PoolNext]_poolVars => ClientsOK'
<1> SUFFICES ASSUME PoolInv, [PoolNext]_poolVars PROVE ClientsOK'
  OBVIOUS
<1>t. PoolTypeOK /\ ClientsOK
  BY DEF PoolInv
<1>n. \A c \in Calls : pc[c] \notin {"idle", "connect", "done"} => client[c] \in Clients
  BY Connected DEF PoolInv
<1>1. ASSUME NEW c \in Calls,
             \/ \E p \in Programs[c] : Call(c, p)
             \/ Discard(c) \/ ConnectFails(c)
      PROVE  ClientsOK'
  <2>1. pc[c] \in {"idle", "connect", "done"} /\ UNCHANGED <<client, link>>
    BY <1>1 DEF Call, Discard, Spent, ConnectFails
  <2>2. pc'[c] \in {"idle", "connect", "done"} /\ \A d \in Calls : d # c => pc'[d] = pc[d]
    BY <1>1, <1>t DEF Call, Discard, ConnectFails, PoolTypeOK
  <2> QED
    BY <2>1, <2>2, <1>t DEF ClientsOK
<1>2. ASSUME NEW c \in Calls, Connect(c)
      PROVE  ClientsOK'
  <2>1. PICK k \in IdleClients : client' = [client EXCEPT ![c] = k]
    BY <1>2 DEF Connect
  <2>2. k \in Clients /\ k # NULL /\ \A d \in Calls : client[d] # k
    BY <2>1, PoolAssumption DEF IdleClients
  <2>3. pc'[c] \in {"begin", "context", "run"} /\ \A d \in Calls : d # c => pc'[d] = pc[d]
    BY <1>2, <1>t DEF Connect, AfterStage, PoolTypeOK
  <2> QED
    BY <2>1, <2>2, <2>3, <1>t DEF ClientsOK, PoolTypeOK
<1>3. ASSUME NEW c \in Calls, pc[c] \notin {"idle", "connect", "done"},
             pc'[c] \notin {"idle", "connect", "done"},
             \A d \in Calls : d # c => pc'[d] = pc[d], client' = client
      PROVE  ClientsOK'
  BY <1>3, <1>t DEF ClientsOK
<1>4. ASSUME NEW c \in Calls,
             \/ Begin(c) \/ SetConfig(c) \/ Select(c) \/ Insert(c) \/ StatementFails(c)
             \/ HandlerThrows(c) \/ CommitUnacknowledged(c) \/ ConnectionLost(c)
      PROVE  ClientsOK'
  <2>1. pc[c] \notin {"idle", "connect", "done"} /\ client' = client
    BY <1>4 DEF Begin, SetConfig, Select, Insert, StatementFails, HandlerThrows,
         CommitUnacknowledged, ConnectionLost, AtCommit, Running
  <2>2. pc'[c] \in {"context", "run", "rollback"} /\ \A d \in Calls : d # c => pc'[d] = pc[d]
    BY <1>4, <1>t DEF Begin, SetConfig, Select, Insert, StatementFails, HandlerThrows,
         CommitUnacknowledged, ConnectionLost, AtCommit, Running, Refused, Fail, AfterStage,
         PoolTypeOK
  <2> QED
    BY <2>1, <2>2, <1>3
<1>5. ASSUME NEW c \in Calls, Commit(c) \/ Rollback(c)
      PROVE  ClientsOK'
  BY <1>5, <1>t DEF Commit, AtCommit, Rollback, Finish, ClientsOK, PoolTypeOK
<1>6. CASE Crash
  BY <1>6, <1>t DEF Crash, ClientsOK, PoolTypeOK
<1>7. CASE UNCHANGED poolVars
  BY <1>7, <1>t DEF poolVars, ClientsOK
<1> QED
  BY <1>1, <1>2, <1>4, <1>5, <1>6, <1>7 DEF PoolNext, CallStep

(* A query in a transaction keeps or takes a connection, its end gives it  *)
(* back.                                                                   *)
LEMMA LinksStep == PoolInv /\ [PoolNext]_poolVars => LinksOK'
<1> SUFFICES ASSUME PoolInv, [PoolNext]_poolVars PROVE LinksOK'
  OBVIOUS
<1>t. PoolTypeOK /\ ClientsOK /\ LinksOK
  BY DEF PoolInv
<1>n. \A c \in Calls : pc[c] \notin {"idle", "connect", "done"} => client[c] \in Clients
  BY Connected DEF PoolInv
(* Nothing happens to the links.                                           *)
<1>1. ASSUME NEW c \in Calls,
             \/ \E p \in Programs[c] : Call(c, p)
             \/ Discard(c) \/ ConnectFails(c)
      PROVE  LinksOK'
  <2>1. pc[c] \in {"idle", "connect", "done"} /\ UNCHANGED <<client, link>>
    BY <1>1 DEF Call, Discard, Spent, ConnectFails
  <2>2. pc'[c] \in {"idle", "connect", "done"} /\ \A d \in Calls : d # c => pc'[d] = pc[d]
    BY <1>1, <1>t DEF Call, Discard, ConnectFails, PoolTypeOK
  <2> QED
    BY <2>1, <2>2, <1>t DEF LinksOK
<1>2. ASSUME NEW c \in Calls, Connect(c)
      PROVE  LinksOK'
  <2>1. pc'[c] = "begin" /\ \A d \in Calls : d # c => pc'[d] = pc[d] /\ client'[d] = client[d]
    BY <1>2, <1>t DEF Connect, AfterStage, PoolTypeOK
  <2>2. pc[c] = "connect" /\ link' = link
    BY <1>2 DEF Connect
  <2> QED
    BY <2>1, <2>2, <1>t DEF LinksOK
<1>3. ASSUME NEW c \in Calls, pc[c] = "run", pc'[c] \in {"run", "rollback"},
             \A d \in Calls : d # c => pc'[d] = pc[d], UNCHANGED <<client, link>>
      PROVE  LinksOK'
  BY <1>3, <1>t DEF LinksOK
<1>4. ASSUME NEW c \in Calls,
             Select(c) \/ Insert(c) \/ StatementFails(c) \/ HandlerThrows(c)
      PROVE  LinksOK'
  <2>1. pc[c] = "run" /\ UNCHANGED <<client, link>>
    BY <1>4 DEF Select, Insert, StatementFails, HandlerThrows, Running
  <2>2. pc'[c] \in {"run", "rollback"} /\ \A d \in Calls : d # c => pc'[d] = pc[d]
    BY <1>4, <1>t DEF Select, Insert, StatementFails, HandlerThrows, Running, Refused, Fail,
         PoolTypeOK
  <2> QED
    BY <2>1, <2>2, <1>3
(* The connection of one call is taken or kept.                            *)
<1>5. ASSUME NEW c \in Calls, Begin(c) \/ SetConfig(c)
      PROVE  LinksOK'
  <2>1. PICK s \in ServersFor(client[c]), session \in Session :
          session.tx = "open" /\ Query(c, s, session)
    <3>1. CASE Begin(c)
      <4>1. PICK s \in ServersFor(client[c]) :
              /\ server[s].tx = "none" /\ s \in Servers
              /\ [server[s] EXCEPT !.tx = "open"] \in Session
              /\ Query(c, s, [server[s] EXCEPT !.tx = "open"])
        BY <3>1, BeginQuery
      <4>2. server[s] \in Session
        BY <4>1, <1>t DEF PoolTypeOK
      <4>3. [server[s] EXCEPT !.tx = "open"].tx = "open"
        BY <4>2 DEF Session
      <4> QED
        BY <4>1, <4>3
    <3>2. CASE SetConfig(c)
      <4>1. SessionOf(c) \in Session
        BY <3>2, Connected DEF SetConfig, PoolInv
      <4>2. [SessionOf(c) EXCEPT !.setting = TenantOf[c]].tx = "open"
        BY <3>2, <4>1, SetConfigQuery DEF Session
      <4> QED
        BY <3>2, <4>2, SetConfigQuery
    <3> QED
      BY <1>5, <3>1, <3>2
  <2>2. pc[c] \in {"begin", "context"} /\ client' = client
    BY <1>5 DEF Begin, SetConfig
  <2>3. pc'[c] \in {"context", "run"} /\ \A d \in Calls : d # c => pc'[d] = pc[d]
    BY <1>5, <1>t DEF Begin, SetConfig, AfterStage, PoolTypeOK
  <2>4. /\ s \in Servers
        /\ \A k \in Clients : k # client[c] => link'[k] = link[k] /\ link[k] # s
        /\ link'[client[c]] = s
        /\ \A d \in Calls : d # c /\ client[d] # NULL => client[d] \in Clients /\ client[d] # client[c]
    BY <2>1, <2>2, <1>t, QueryFrame
  <2> QED
    BY <2>2, <2>3, <2>4, <1>t, <1>n, PoolAssumption DEF LinksOK
(* The connection of one call is given back, or gone.                      *)
<1>6. ASSUME NEW c \in Calls, pc[c] \notin {"idle", "connect", "done"},
             link'[client[c]] = NULL,
             \A k \in Clients : k # client[c] => link'[k] = link[k],
             pc'[c] \notin {"context", "run"},
             \A d \in Calls : d # c => pc'[d] = pc[d] /\ client'[d] = client[d]
      PROVE  LinksOK'
  BY <1>6, <1>t, <1>n DEF LinksOK, ClientsOK
<1>7. ASSUME NEW c \in Calls, Commit(c)
      PROVE  LinksOK'
  <2>1. link'[client[c]] = NULL /\ \A k \in Clients : k # client[c] => link'[k] = link[k]
    <3>1. /\ link[client[c]] \in ServersFor(client[c])
          /\ Ended(SessionOf(c)) \in Session /\ Ended(SessionOf(c)).tx = "none"
          /\ Query(c, link[client[c]], Ended(SessionOf(c)))
      BY <1>7, CommitQuery
    <3>2. pc[c] \notin {"idle", "connect", "done"}
      BY <1>7 DEF Commit, AtCommit
    <3> QED
      BY <3>1, <3>2, <1>t, QueryFrame
  <2> QED
    BY <1>7, <2>1, <1>6, <1>t DEF Commit, AtCommit, Finish, PoolTypeOK
<1>8. ASSUME NEW c \in Calls, CommitUnacknowledged(c) \/ ConnectionLost(c)
      PROVE  LinksOK'
  <2>1. pc[c] \in {"begin", "context", "run"} /\ DropLink(client[c]) /\ client' = client
    BY <1>8 DEF CommitUnacknowledged, ConnectionLost, AtCommit
  <2>2. link'[client[c]] = NULL /\ \A k \in Clients : k # client[c] => link'[k] = link[k]
    BY <2>1, <1>t, DropFrame
  <2>3. pc'[c] = "rollback" /\ \A d \in Calls : d # c => pc'[d] = pc[d]
    BY <1>8, <1>t DEF CommitUnacknowledged, ConnectionLost, Fail, PoolTypeOK
  <2> QED
    BY <2>1, <2>2, <2>3, <1>6
<1>9. ASSUME NEW c \in Calls, Rollback(c)
      PROVE  LinksOK'
  <2>1. link'[client[c]] = NULL /\ \A k \in Clients : k # client[c] => link'[k] = link[k]
    <3>1. CASE link[client[c]] = NULL
      BY <1>9, <3>1 DEF Rollback
    <3>2. CASE link[client[c]] # NULL
      BY <1>9, <3>2, <1>t, RollbackQuery, QueryFrame DEF Rollback
    <3> QED
      BY <3>1, <3>2
  <2> QED
    BY <1>9, <2>1, <1>6, <1>t DEF Rollback, Finish, PoolTypeOK
<1>10. CASE Crash
  BY <1>10, <1>t DEF Crash, LinksOK, PoolTypeOK
<1>11. CASE UNCHANGED poolVars
  BY <1>11, <1>t DEF poolVars, LinksOK
<1> QED
  BY <1>1, <1>2, <1>4, <1>5, <1>7, <1>8, <1>9, <1>10, <1>11 DEF PoolNext, CallStep

(* What a call is at, and what became of it.                               *)
LEMMA CallsStep == PoolInv /\ [PoolNext]_poolVars => CallsOK'
<1> SUFFICES ASSUME PoolInv, [PoolNext]_poolVars PROVE CallsOK'
  OBVIOUS
<1>t. PoolTypeOK /\ CallsOK
  BY DEF PoolInv
<1>l. \A c \in Calls : \A p \in Programs[c] : Len(p) \in Nat
  BY StatementsAssumption
<1>1. ASSUME NEW c \in Calls, NEW p \in Programs[c], Call(c, p)
      PROVE  CallsOK'
  BY <1>1, <1>t, <1>l DEF Call, CallsOK, PoolTypeOK
<1>2. ASSUME NEW c \in Calls, Discard(c)
      PROVE  CallsOK'
  BY <1>2, <1>t DEF Discard, CallsOK, PoolTypeOK
<1>3. ASSUME NEW c \in Calls, Connect(c) \/ Begin(c) \/ SetConfig(c)
      PROVE  CallsOK'
  BY <1>3, <1>t DEF Connect, Begin, SetConfig, AfterStage, CallsOK, PoolTypeOK
<1>4. ASSUME NEW c \in Calls, ConnectFails(c)
      PROVE  CallsOK'
  BY <1>4, <1>t DEF ConnectFails, CallsOK, PoolTypeOK
<1>5. ASSUME NEW c \in Calls, pc[c] \in {"begin", "context", "run"},
             NEW what \in {"problem", "error"}, Fail(c, what), UNCHANGED <<program, step>>
      PROVE  CallsOK'
  BY <1>5, <1>t DEF Fail, CallsOK, PoolTypeOK
<1>6. ASSUME NEW c \in Calls, pc[c] = "run", step[c] < Len(program[c]),
             step' = [step EXCEPT ![c] = @ + 1], UNCHANGED <<pc, outcome, program>>
      PROVE  CallsOK'
  <2>1. step[c] + 1 \in 0 .. Len(program[c])
    BY <1>6, <1>t, <1>l DEF CallsOK
  <2> QED
    BY <1>6, <2>1, <1>t DEF CallsOK, PoolTypeOK
<1>7. ASSUME NEW c \in Calls, Select(c)
      PROVE  CallsOK'
  BY <1>7, <1>5, <1>6 DEF Select, Running
<1>8. ASSUME NEW c \in Calls, Insert(c)
      PROVE  CallsOK'
  BY <1>8, <1>5, <1>6 DEF Insert, Running, Refused
<1>9. ASSUME NEW c \in Calls,
             \/ StatementFails(c) \/ HandlerThrows(c)
             \/ CommitUnacknowledged(c) \/ ConnectionLost(c)
      PROVE  CallsOK'
  BY <1>9, <1>5 DEF StatementFails, HandlerThrows, CommitUnacknowledged, ConnectionLost,
       AtCommit, Refused
<1>10. ASSUME NEW c \in Calls, Commit(c) \/ Rollback(c)
       PROVE  CallsOK'
  BY <1>10, <1>t DEF Commit, Rollback, Finish, AtCommit, CallsOK, PoolTypeOK
<1>11. CASE Crash
  <2>1. \A c \in Calls :
          pc'[c] = (IF pc[c] \notin {"idle", "done"} THEN "done" ELSE pc[c])
          /\ outcome'[c] = (IF outcome[c] = "open" THEN "gone" ELSE outcome[c])
    BY <1>11 DEF Crash
  <2> QED
    BY <1>11, <2>1, <1>t DEF Crash, CallsOK, PoolTypeOK
<1>12. CASE UNCHANGED poolVars
  BY <1>12, <1>t DEF poolVars, CallsOK
<1> QED
  BY <1>1, <1>2, <1>3, <1>4, <1>7, <1>8, <1>9, <1>10, <1>11, <1>12 DEF PoolNext, CallStep

(* A call's step leaves the sessions of the others' transactions alone.    *)
LEMMA OthersKeepTheirSessions ==
  ASSUME PoolInv, NEW c \in Calls, CallStep(c)
  PROVE  \A d \in Calls : d # c =>
           /\ pc'[d] = pc[d] /\ program'[d] = program[d] /\ step'[d] = step[d]
           /\ seen'[d] = seen[d] /\ outcome'[d] = outcome[d]
           /\ pc[d] \in {"context", "run"} => SessionOf(d)' = SessionOf(d)
<1>t. PoolTypeOK /\ ClientsOK /\ LinksOK
  BY DEF PoolInv
<1>1. \A d \in Calls : d # c =>
        /\ pc'[d] = pc[d] /\ program'[d] = program[d] /\ step'[d] = step[d]
        /\ seen'[d] = seen[d] /\ outcome'[d] = outcome[d] /\ client'[d] = client[d]
  BY <1>t DEF CallStep, Connect, ConnectFails, Begin, SetConfig, Select, Insert, StatementFails,
     HandlerThrows, Commit, CommitUnacknowledged, ConnectionLost, Rollback, Refused, Fail,
     Finish, PoolTypeOK
<1>2. ASSUME NEW d \in Calls, d # c, pc[d] \in {"context", "run"}
      PROVE  SessionOf(d)' = SessionOf(d)
  <2>1. client[d] \in Clients /\ link[client[d]] \in Servers /\ client'[d] = client[d]
    BY <1>1, <1>2, <1>t, Connected
  <2>2. CASE UNCHANGED <<link, server>>
    BY <2>1, <2>2 DEF SessionOf
  <2>3. ASSUME NEW s \in ServersFor(client[c]), NEW session \in Session, Query(c, s, session),
               pc[c] \notin {"idle", "connect", "done"}
        PROVE  SessionOf(d)' = SessionOf(d)
    <3>1. /\ \A k \in Clients : k # client[c] => link'[k] = link[k] /\ link[k] # s
          /\ \A t \in Servers : t # s => server'[t] = server[t]
          /\ client[d] # client[c]
      BY <1>2, <1>t, <2>1, <2>3, QueryFrame, PoolAssumption
    <3> QED
      BY <2>1, <3>1 DEF SessionOf
  <2>4. ASSUME DropLink(client[c]), pc[c] \notin {"idle", "connect", "done"}
        PROVE  SessionOf(d)' = SessionOf(d)
    <3>1. /\ \A k \in Clients : k # client[c] => link'[k] = link[k]
          /\ \A t \in Servers : t # link[client[c]] => server'[t] = server[t]
          /\ client[d] # client[c]
      BY <1>2, <1>t, <2>1, <2>4, DropFrame, PoolAssumption
    <3>2. link[client[d]] # link[client[c]]
      BY <1>t, <2>1, <2>4, <3>1, Connected, PoolAssumption DEF LinksOK
    <3> QED
      BY <2>1, <3>1, <3>2 DEF SessionOf
  <2>5. ASSUME NEW session \in Session, pc[c] = "run", UNCHANGED <<link, client>>,
               server' = [server EXCEPT ![link[client[c]]] = session]
        PROVE  SessionOf(d)' = SessionOf(d)
    BY <1>2, <2>5, SessionFrame
  <2>6. CASE Connect(c) \/ ConnectFails(c) \/ Select(c) \/ HandlerThrows(c)
    BY <2>2, <2>6 DEF Connect, ConnectFails, Select, HandlerThrows
  <2>7. CASE Begin(c)
    BY <2>3, <2>7, BeginQuery DEF Begin
  <2>8. CASE SetConfig(c)
    BY <2>3, <2>8, SetConfigQuery DEF SetConfig
  <2>9. CASE StatementFails(c)
    BY <2>5, <2>9, RefusedSession DEF StatementFails
  <2>10. CASE Insert(c)
    <3>1. CASE Refused(c)
      BY <2>5, <2>10, <3>1, RefusedSession DEF Insert, Running
    <3>2. CASE server' = [server EXCEPT ![link[client[c]]].pending =
                             @ \cup {RowMade(c, program[c], step[c] + 1)}]
      BY <2>5, <2>10, <3>2, InsertSession DEF Insert, Running
    <3> QED
      BY <2>10, <3>1, <3>2 DEF Insert
  <2>11. CASE Commit(c)
    BY <2>3, <2>11, CommitQuery DEF Commit, AtCommit
  <2>12. CASE CommitUnacknowledged(c) \/ ConnectionLost(c)
    BY <2>4, <2>12 DEF CommitUnacknowledged, ConnectionLost, AtCommit
  <2>13. CASE Rollback(c)
    <3>1. CASE link[client[c]] = NULL
      BY <2>2, <2>13, <3>1 DEF Rollback
    <3>2. CASE link[client[c]] # NULL
      BY <2>3, <2>13, <3>2, RollbackQuery DEF Rollback
    <3> QED
      BY <3>1, <3>2
  <2> QED
    BY <2>6, <2>7, <2>8, <2>9, <2>10, <2>11, <2>12, <2>13 DEF CallStep
<1> QED
  BY <1>1, <1>2

(* A connection that nobody has is clean after the step, too.              *)
LEMMA FreeStep ==
  PoolInv /\ [PoolNext]_poolVars =>
    \A s \in Servers : (\A k \in Clients : link'[k] # s) =>
      Blank(server'[s]) /\ server'[s].tx = "none"
<1> DEFINE Clean(s) == Blank(server'[s]) /\ server'[s].tx = "none"
<1> SUFFICES ASSUME PoolInv, [PoolNext]_poolVars, NEW s \in Servers,
                    \A k \in Clients : link'[k] # s
             PROVE  Clean(s)
  OBVIOUS
<1>t. PoolTypeOK /\ ClientsOK /\ LinksOK
  BY DEF PoolInv
<1>f. (\A k \in Clients : link[k] # s) => Blank(server[s]) /\ server[s].tx = "none"
  BY DEF PoolInv, SessionsOK
<1>1. CASE UNCHANGED <<link, server>>
  BY <1>1, <1>f
<1>2. ASSUME NEW c \in Calls, pc[c] \notin {"idle", "connect", "done"},
             NEW q \in ServersFor(client[c]), NEW session \in Session, Query(c, q, session),
             session.tx = "none" => Blank(session)
      PROVE  Clean(s)
  <2>1. /\ \A k \in Clients : k # client[c] => link'[k] = link[k]
        /\ link'[client[c]] = IF session.tx = "none" THEN NULL ELSE q
        /\ \A t \in Servers : t # q => server'[t] = server[t]
        /\ server'[q] = session
        /\ link[client[c]] # NULL => q = link[client[c]]
        /\ client[c] \in Clients
    BY <1>2, <1>t, QueryFrame, Connected
  <2>2. CASE s = q
    BY <1>2, <2>1, <2>2
  <2>3. CASE s # q
    <3>1. \A k \in Clients : link[k] # s
      BY <2>1, <2>3, PoolAssumption
    <3> QED
      BY <2>1, <2>3, <3>1, <1>f
  <2> QED
    BY <2>2, <2>3
<1>3. ASSUME NEW c \in Calls, pc[c] \notin {"idle", "connect", "done"}, DropLink(client[c])
      PROVE  Clean(s)
  <2>1. /\ \A k \in Clients : k # client[c] => link'[k] = link[k]
        /\ \A t \in Servers : t # link[client[c]] => server'[t] = server[t]
        /\ link[client[c]] # NULL => server'[link[client[c]]] = Cold
    BY <1>3, <1>t, DropFrame
  <2>2. CASE s = link[client[c]]
    BY <2>1, <2>2, ColdIsClean, PoolAssumption
  <2>3. CASE s # link[client[c]]
    BY <2>1, <2>3, <1>f
  <2> QED
    BY <2>2, <2>3
<1>4. ASSUME NEW c \in Calls, pc[c] = "run", UNCHANGED <<link, client>>,
             NEW session \in Session, server' = [server EXCEPT ![link[client[c]]] = session]
      PROVE  Clean(s)
  <2>1. client[c] \in Clients /\ \A t \in Servers : t # link[client[c]] => server'[t] = server[t]
    BY <1>4, <1>t, Connected, SessionFrame
  <2> QED
    BY <1>4, <2>1, <1>f
<1>5. ASSUME NEW c \in Calls, \E p \in Programs[c] : Call(c, p)
      PROVE  Clean(s)
  BY <1>5, <1>1 DEF Call
<1>6. ASSUME NEW c \in Calls,
             Discard(c) \/ Connect(c) \/ ConnectFails(c) \/ Select(c) \/ HandlerThrows(c)
      PROVE  Clean(s)
  BY <1>6, <1>1 DEF Discard, Connect, ConnectFails, Select, HandlerThrows
<1>7. ASSUME NEW c \in Calls, Begin(c)
      PROVE  Clean(s)
  <2>1. PICK q \in ServersFor(client[c]) :
          /\ q \in Servers /\ [server[q] EXCEPT !.tx = "open"] \in Session
          /\ Query(c, q, [server[q] EXCEPT !.tx = "open"])
    BY <1>7, BeginQuery
  <2>2. [server[q] EXCEPT !.tx = "open"].tx # "none"
    BY <2>1, <1>t DEF PoolTypeOK, Session
  <2> QED
    BY <1>7, <2>1, <2>2, <1>2 DEF Begin
<1>8. ASSUME NEW c \in Calls, SetConfig(c)
      PROVE  Clean(s)
  <2>1. [SessionOf(c) EXCEPT !.setting = TenantOf[c]].tx # "none"
    <3>1. SessionOf(c) \in Session /\ SessionOf(c).tx = "open"
      BY <1>8, <1>t, Connected, SetConfigQuery DEF SetConfig
    <3> QED
      BY <3>1 DEF Session
  <2> QED
    BY <1>8, <2>1, <1>2, SetConfigQuery DEF SetConfig
<1>9. ASSUME NEW c \in Calls, Insert(c) \/ StatementFails(c)
      PROVE  Clean(s)
  <2>1. CASE Refused(c)
    BY <1>9, <2>1, <1>4, RefusedSession DEF Insert, Running, StatementFails
  <2>2. CASE Insert(c) /\ server' = [server EXCEPT ![link[client[c]]].pending =
                                       @ \cup {RowMade(c, program[c], step[c] + 1)}]
    BY <2>2, <1>4, InsertSession DEF Insert, Running
  <2> QED
    BY <1>9, <2>1, <2>2 DEF Insert, StatementFails
<1>10. ASSUME NEW c \in Calls, Commit(c)
       PROVE  Clean(s)
  <2>1. SessionOf(c) \in Session
    BY <1>10, <1>t, Connected DEF Commit, AtCommit
  <2> QED
    BY <1>10, <2>1, <1>2, CommitQuery, EndedIsClean DEF Commit, AtCommit
<1>11. ASSUME NEW c \in Calls, CommitUnacknowledged(c) \/ ConnectionLost(c)
       PROVE  Clean(s)
  BY <1>11, <1>3 DEF CommitUnacknowledged, ConnectionLost, AtCommit
<1>12. ASSUME NEW c \in Calls, Rollback(c)
       PROVE  Clean(s)
  <2>1. CASE link[client[c]] = NULL
    BY <1>12, <2>1, <1>1 DEF Rollback
  <2>2. CASE link[client[c]] # NULL
    <3>1. SessionOf(c) \in Session
      BY <1>12, <2>2, <1>t, Connected DEF Rollback, SessionOf, PoolTypeOK
    <3> QED
      BY <1>12, <2>2, <3>1, <1>2, RollbackQuery, EndedIsClean DEF Rollback
  <2> QED
    BY <2>1, <2>2
<1>13. CASE Crash
  <2>1. server'[s] = IF \E k \in Clients : link[k] = s THEN Cold ELSE server[s]
    BY <1>13 DEF Crash
  <2> QED
    BY <2>1, <1>f, ColdIsClean
<1>14. CASE UNCHANGED poolVars
  BY <1>14, <1>1 DEF poolVars
<1> QED
  BY <1>5, <1>6, <1>7, <1>8, <1>9, <1>10, <1>11, <1>12, <1>13, <1>14 DEF PoolNext, CallStep

(* The session of the call itself, from BEGIN to COMMIT.                   *)
LEMMA OwnSession ==
  ASSUME PoolInv, NEW c \in Calls, CallStep(c)
  PROVE  /\ pc'[c] = "context" =>
              Blank(SessionOf(c)') /\ SessionOf(c)'.tx = "open" /\ TenantOf[c] # NULL
         /\ pc'[c] = "run" =>
              /\ SessionOf(c)'.tx = "open"
              /\ CurrentTenant(SessionOf(c)'.setting) = TenantOf[c]
              /\ SessionOf(c)'.pending = RowsUpTo(c, program'[c], step'[c])
<1>t. PoolTypeOK /\ ClientsOK /\ LinksOK
  BY DEF PoolInv
<1>1. CASE Begin(c)
  <2>1. PICK s \in ServersFor(client[c]) :
          /\ s \in Servers /\ Blank(server[s])
          /\ [server[s] EXCEPT !.tx = "open"] \in Session
          /\ Query(c, s, [server[s] EXCEPT !.tx = "open"])
    BY <1>1, BeginQuery
  <2>2. server[s] \in Session
    BY <2>1, <1>t DEF PoolTypeOK
  <2>3. /\ Blank([server[s] EXCEPT !.tx = "open"])
        /\ [server[s] EXCEPT !.tx = "open"].tx = "open"
    BY <2>1, <2>2 DEF Blank, Session
  <2>4. SessionOf(c)' = [server[s] EXCEPT !.tx = "open"]
    <3> DEFINE next == [server[s] EXCEPT !.tx = "open"]
    <3>1. next \in Session /\ Query(c, s, next) /\ next.tx # "none"
      BY <2>1, <2>3
    <3>2. pc[c] \notin {"idle", "connect", "done"} /\ client' = client
      BY <1>1 DEF Begin
    <3> HIDE DEF next
    <3>3. link'[client[c]] = s /\ server'[s] = next
      BY <3>1, <3>2, <1>t, QueryFrame
    <3> QED
      BY <3>2, <3>3 DEF SessionOf, next
  <2>5. pc'[c] = IF TenantOf[c] # NULL THEN "context" ELSE "run"
    BY <1>1, <1>t DEF Begin, AfterStage, PoolTypeOK
  <2>6. step'[c] = 0 /\ program' = program
    BY <1>1 DEF Begin, PoolInv, CallsOK
  <2>7. CASE TenantOf[c] # NULL
    BY <2>3, <2>4, <2>5, <2>7
  <2>8. CASE TenantOf[c] = NULL
    BY <2>3, <2>4, <2>5, <2>6, <2>8, NoneYet DEF Blank, CurrentTenant
  <2> QED
    BY <2>7, <2>8
<1>2. CASE SetConfig(c)
  <2>1. SessionOf(c) \in Session /\ SessionOf(c).tx = "open" /\ Blank(SessionOf(c))
    BY <1>2, <1>t, Connected, SetConfigQuery DEF SetConfig
  <2>2. SessionOf(c)' = [SessionOf(c) EXCEPT !.setting = TenantOf[c]]
    <3> DEFINE next == [SessionOf(c) EXCEPT !.setting = TenantOf[c]]
    <3>1. /\ link[client[c]] \in ServersFor(client[c])
          /\ next \in Session /\ Query(c, link[client[c]], next) /\ next.tx # "none"
      BY <1>2, <2>1, SetConfigQuery DEF Session
    <3>2. pc[c] \notin {"idle", "connect", "done"} /\ client' = client
      BY <1>2 DEF SetConfig
    <3> HIDE DEF next
    <3>3. link'[client[c]] = link[client[c]] /\ server'[link[client[c]]] = next
      BY <3>1, <3>2, <1>t, QueryFrame
    <3> QED
      BY <3>2, <3>3 DEF SessionOf, next
  <2>3. /\ SessionOf(c)'.tx = "open" /\ SessionOf(c)'.setting = TenantOf[c]
        /\ SessionOf(c)'.pending = {}
    BY <2>1, <2>2 DEF Session, Blank
  <2>4. TenantOf[c] # EMPTY
    BY <1>2, SetConfigQuery, PoolAssumption
  <2>5. pc'[c] = "run" /\ step'[c] = 0
    BY <1>2, <1>t DEF SetConfig, AfterStage, PoolTypeOK, PoolInv, CallsOK
  <2> QED
    BY <2>3, <2>4, <2>5, NoneYet DEF CurrentTenant
<1>3. CASE Select(c) /\ pc'[c] = "run"
  <2>1. UNCHANGED <<link, server, client, program>> /\ pc[c] = "run"
    BY <1>3 DEF Select, Running
  <2>2. step[c] < Len(program[c]) /\ program[c][step[c] + 1].op # "insert"
    BY <1>3 DEF Select, Running
  <2>3. step'[c] = step[c] + 1
    BY <1>3, <1>t DEF Select, Fail, PoolTypeOK
  <2>4. InContext(c) /\ program[c] \in Programs[c] /\ step[c] \in 0 .. Len(program[c])
    BY <2>1 DEF PoolInv, SessionsOK, CallsOK
  <2>5. RowsUpTo(c, program[c], step[c] + 1) = RowsUpTo(c, program[c], step[c])
    BY <2>2, <2>4, OneMore
  <2>6. SessionOf(c)' = SessionOf(c)
    BY <2>1 DEF SessionOf
  <2> QED
    BY <1>3, <2>1, <2>3, <2>4, <2>5, <2>6 DEF InContext
<1>4. CASE Insert(c) /\ pc'[c] = "run"
  <2> DEFINE more == [SessionOf(c) EXCEPT !.pending = RowsUpTo(c, program[c], step[c] + 1)]
  <2>1. /\ UNCHANGED <<link, client, program>> /\ pc[c] = "run"
        /\ step[c] < Len(program[c]) /\ program[c][step[c] + 1].op = "insert"
    BY <1>4 DEF Insert, Running
  <2>2. ~ Refused(c)
    BY <1>4, <1>t DEF Refused, Fail, PoolTypeOK
  <2>3. /\ server' = [server EXCEPT ![link[client[c]]].pending =
                         @ \cup {RowMade(c, program[c], step[c] + 1)}]
        /\ step'[c] = step[c] + 1
    BY <1>4, <2>2, <1>t DEF Insert, PoolTypeOK
  <2>4. more \in Session /\ server' = [server EXCEPT ![link[client[c]]] = more]
    BY <2>1, <2>3, InsertSession
  <2>5. SessionOf(c)' = more
    BY <2>1, <2>4, SessionFrame
  <2>6. SessionOf(c) \in Session /\ InContext(c)
    BY <2>1, <1>t, Connected DEF PoolInv, SessionsOK
  <2>7. more.tx = "open" /\ more.setting = SessionOf(c).setting
        /\ more.pending = RowsUpTo(c, program[c], step[c] + 1)
    BY <2>6 DEF Session, InContext
  <2> QED
    BY <1>4, <2>1, <2>3, <2>5, <2>6, <2>7 DEF InContext
<1>5. CASE pc'[c] \notin {"context", "run"}
  BY <1>5
<1>6. CASE ~ (Begin(c) \/ SetConfig(c) \/ Select(c) \/ Insert(c))
  <2>1. pc'[c] \notin {"context", "run"}
    BY <1>6, <1>t DEF CallStep, Connect, ConnectFails, StatementFails, HandlerThrows, Commit,
       CommitUnacknowledged, ConnectionLost, Rollback, Refused, Fail, Finish, AfterStage,
       PoolTypeOK
  <2> QED
    BY <2>1
<1>7. Select(c) \/ Insert(c) => pc'[c] \in {"run", "rollback"}
  BY <1>t DEF Select, Insert, Running, Refused, Fail, PoolTypeOK
<1> QED
  BY <1>1, <1>2, <1>3, <1>4, <1>5, <1>6, <1>7

LEMMA SessionsStep == PoolInv /\ [PoolNext]_poolVars => SessionsOK'
<1> SUFFICES ASSUME PoolInv, [PoolNext]_poolVars PROVE SessionsOK'
  OBVIOUS
<1>t. PoolTypeOK /\ SessionsOK
  BY DEF PoolInv
<1>f. \A s \in Servers : (\A k \in Clients : link'[k] # s) =>
        Blank(server'[s]) /\ server'[s].tx = "none"
  BY FreeStep
<1> DEFINE OpenOK(d) ==
      /\ pc[d] = "context" =>
           Blank(SessionOf(d)) /\ SessionOf(d).tx = "open" /\ TenantOf[d] # NULL
      /\ pc[d] = "run" =>
           /\ SessionOf(d).tx = "open"
           /\ CurrentTenant(SessionOf(d).setting) = TenantOf[d]
           /\ SessionOf(d).pending = RowsUpTo(d, program[d], step[d])
<1>o. \A d \in Calls : OpenOK(d)
  BY <1>t DEF SessionsOK, InContext
<1>1. SUFFICES \A d \in Calls : OpenOK(d)'
  BY <1>1, <1>f DEF SessionsOK, InContext, Blank, SessionOf
<1>2. ASSUME NEW c \in Calls, CallStep(c), NEW d \in Calls
      PROVE  OpenOK(d)'
  <2>1. CASE d = c
    BY <1>2, <2>1, OwnSession DEF SessionOf
  <2>2. CASE d # c
    <3>1. /\ pc'[d] = pc[d] /\ program'[d] = program[d] /\ step'[d] = step[d]
          /\ pc[d] \in {"context", "run"} => SessionOf(d)' = SessionOf(d)
      BY <1>2, <2>2, OthersKeepTheirSessions
    <3> QED
      BY <3>1, <1>o DEF SessionOf
  <2> QED
    BY <2>1, <2>2
<1>3. ASSUME NEW c \in Calls, (\E p \in Programs[c] : Call(c, p)) \/ Discard(c), NEW d \in Calls
      PROVE  OpenOK(d)'
  <2>1. UNCHANGED <<client, link, server>> /\ pc'[c] \in {"idle", "connect"}
    BY <1>3, <1>t DEF Call, Discard, PoolTypeOK
  <2>2. d # c => pc'[d] = pc[d] /\ program'[d] = program[d] /\ step'[d] = step[d]
    BY <1>3, <1>t DEF Call, Discard, PoolTypeOK
  <2> QED
    BY <2>1, <2>2, <1>o DEF SessionOf
<1>4. ASSUME Crash, NEW d \in Calls
      PROVE  OpenOK(d)'
  BY <1>4 DEF Crash
<1>5. ASSUME UNCHANGED poolVars, NEW d \in Calls
      PROVE  OpenOK(d)'
  BY <1>5, <1>o DEF poolVars, SessionOf
<1> QED
  BY <1>2, <1>3, <1>4, <1>5 DEF PoolNext

(* A call that has stored nothing may be made again.                       *)
LEMMA NothingStored ==
  ASSUME PoolInv, NEW c \in Calls, pc[c] \notin {"rollback", "done"} \/ Spent(c)
  PROVE  RowsOf(c) = {}
  BY DEF PoolInv, RowsOK, Spent

(* COMMIT stores what the call has inserted.                               *)
LEMMA CommitStores ==
  ASSUME PoolInv, NEW c \in Calls, AtCommit(c)
  PROVE  /\ SessionOf(c).pending = RowsMade(c, program[c])
         /\ Committed(SessionOf(c)) = rows \cup RowsMade(c, program[c])
         /\ \A r \in RowsMade(c, program[c]) : r.by = c /\ r.tenant = TenantOf[c]
<1>1. InContext(c) /\ program[c] \in Programs[c] /\ step[c] = Len(program[c])
      /\ step[c] \in 0 .. Len(program[c])
  BY DEF PoolInv, SessionsOK, CallsOK, AtCommit
<1> QED
  BY <1>1, RowsAreTheCalls DEF InContext, Committed, RowsMade

LEMMA RowsStep == PoolInv /\ [PoolNext]_poolVars => RowsOK'
<1> SUFFICES ASSUME PoolInv, [PoolNext]_poolVars PROVE RowsOK'
  OBVIOUS
<1>t. PoolTypeOK /\ CallsOK /\ RowsOK
  BY DEF PoolInv
<1>1. ASSUME NEW c \in Calls, (\E p \in Programs[c] : Call(c, p)) \/ Discard(c)
      PROVE  RowsOK'
  <2>1. RowsOf(c) = {}
    BY <1>1, NothingStored DEF Call, Discard
  <2>2. /\ outcome'[c] # "ok" /\ seen'[c] = {} /\ UNCHANGED <<rows, unsure>>
        /\ \A d \in Calls : d # c =>
             /\ pc'[d] = pc[d] /\ program'[d] = program[d]
             /\ outcome'[d] = outcome[d] /\ seen'[d] = seen[d]
    BY <1>1, <1>t DEF Call, Discard, PoolTypeOK
  <2>3. RowsOf(c)' = {}
    BY <2>1, <2>2 DEF RowsOf
  <2> QED
    BY <2>2, <2>3, <1>t DEF RowsOK, RowsOf
(* Nothing is stored.                                                      *)
<1>3. ASSUME NEW c \in Calls, pc[c] \notin {"rollback", "done"}, outcome'[c] # "ok",
             \A d \in Calls : d # c => pc'[d] = pc[d] /\ outcome'[d] = outcome[d],
             \A r \in seen'[c] : r.tenant = TenantOf[c],
             \A d \in Calls : d # c => seen'[d] = seen[d],
             UNCHANGED <<program, rows, unsure>>
      PROVE  RowsOK'
  <2>1. RowsOf(c) = {}
    BY <1>3, NothingStored
  <2> QED
    BY <1>3, <2>1, <1>t DEF RowsOK, RowsOf
<1>4. ASSUME NEW c \in Calls,
             \/ Connect(c) \/ ConnectFails(c) \/ Begin(c) \/ SetConfig(c) \/ Insert(c)
             \/ StatementFails(c) \/ HandlerThrows(c) \/ ConnectionLost(c)
      PROVE  RowsOK'
  <2>1. /\ pc[c] \notin {"rollback", "done"} /\ outcome'[c] # "ok"
        /\ \A d \in Calls : d # c => pc'[d] = pc[d] /\ outcome'[d] = outcome[d]
    BY <1>4, <1>t DEF Connect, ConnectFails, Begin, SetConfig, Insert, StatementFails,
       HandlerThrows, ConnectionLost, Running, Refused, Fail, CallsOK, PoolTypeOK
  <2>2. UNCHANGED <<program, rows, unsure, seen>>
    BY <1>4 DEF Connect, ConnectFails, Begin, SetConfig, Insert, StatementFails,
       HandlerThrows, ConnectionLost
  <2> QED
    BY <2>1, <2>2, <1>3, <1>t DEF RowsOK
<1>5. ASSUME NEW c \in Calls, Select(c)
      PROVE  RowsOK'
  <2>1. /\ pc[c] \notin {"rollback", "done"} /\ outcome'[c] # "ok"
        /\ \A d \in Calls : d # c => pc'[d] = pc[d] /\ outcome'[d] = outcome[d]
    BY <1>5, <1>t DEF Select, Running, Fail, CallsOK, PoolTypeOK
  <2>2. \A r \in Found(c) : r.tenant = TenantOf[c]
    BY <1>5 DEF Select, Running, Found, Visible, Policy, PoolInv, SessionsOK, InContext
  <2>3. /\ \A r \in seen'[c] : r.tenant = TenantOf[c]
        /\ \A d \in Calls : d # c => seen'[d] = seen[d]
    BY <1>5, <2>2, <1>t DEF Select, RowsOK, PoolTypeOK
  <2>4. UNCHANGED <<program, rows, unsure>>
    BY <1>5 DEF Select
  <2> QED
    BY <2>1, <2>3, <2>4, <1>3
(* All of the call's rows are stored at once.                              *)
<1>6. ASSUME NEW c \in Calls, AtCommit(c), rows' = Committed(SessionOf(c)),
             pc'[c] \in {"rollback", "done"},
             \/ outcome'[c] = "ok"
             \/ outcome'[c] = "error" /\ (RowsMade(c, program[c]) # {} => c \in unsure'),
             \A d \in Calls : d # c => pc'[d] = pc[d] /\ outcome'[d] = outcome[d],
             unsure \subseteq unsure', UNCHANGED <<program, seen>>
      PROVE  RowsOK'
  <2>1. /\ rows' = rows \cup RowsMade(c, program[c]) /\ RowsOf(c) = {}
        /\ \A r \in RowsMade(c, program[c]) : r.by = c
    BY <1>6, CommitStores, NothingStored DEF AtCommit
  <2>2. RowsOf(c)' = RowsMade(c, program[c]) /\ \A d \in Calls : d # c => RowsOf(d)' = RowsOf(d)
    BY <2>1 DEF RowsOf
  <2> QED
    BY <1>6, <2>2, <1>t DEF RowsOK
<1>7. ASSUME NEW c \in Calls, Commit(c)
      PROVE  RowsOK'
  <2>1. /\ pc'[c] = "done" /\ outcome'[c] = "ok"
        /\ \A d \in Calls : d # c => pc'[d] = pc[d] /\ outcome'[d] = outcome[d]
    BY <1>7, <1>t DEF Commit, Finish, PoolTypeOK
  <2> QED
    BY <1>7, <2>1, <1>6 DEF Commit
<1>8. ASSUME NEW c \in Calls, CommitUnacknowledged(c)
      PROVE  RowsOK'
  <2>1. /\ pc'[c] = "rollback" /\ outcome'[c] = "error"
        /\ \A d \in Calls : d # c => pc'[d] = pc[d] /\ outcome'[d] = outcome[d]
    BY <1>8, <1>t DEF CommitUnacknowledged, Fail, PoolTypeOK
  <2>2. RowsMade(c, program[c]) # {} => c \in unsure'
    BY <1>8, CommitStores DEF CommitUnacknowledged
  <2> QED
    BY <1>8, <2>1, <2>2, <1>6 DEF CommitUnacknowledged
<1>9. ASSUME NEW c \in Calls, Rollback(c)
      PROVE  RowsOK'
  BY <1>9, <1>t DEF Rollback, Finish, RowsOK, RowsOf, PoolTypeOK
<1>10. CASE Crash
  <2>1. \A c \in Calls :
          /\ pc'[c] = (IF pc[c] \notin {"idle", "done"} THEN "done" ELSE pc[c])
          /\ outcome'[c] = (IF outcome[c] = "open" THEN "gone" ELSE outcome[c])
    BY <1>10 DEF Crash
  <2> QED
    BY <1>10, <2>1, <1>t DEF Crash, RowsOK, RowsOf
<1>11. CASE UNCHANGED poolVars
  BY <1>11, <1>t DEF poolVars, RowsOK, RowsOf
<1> QED
  BY <1>1, <1>4, <1>5, <1>7, <1>8, <1>9, <1>10, <1>11 DEF PoolNext, CallStep

LEMMA PoolInvInit == PoolInit => PoolInv
<1> SUFFICES ASSUME PoolInit PROVE PoolInv
  OBVIOUS
<1>1. PoolTypeOK
  BY ColdIsClean DEF PoolInit, PoolTypeOK
<1>2. ClientsOK /\ LinksOK /\ SessionsOK
  BY ColdIsClean DEF PoolInit, ClientsOK, LinksOK, SessionsOK
<1>3. CallsOK
  <2>1. 0 \in 0 .. Len(<<>>)
    OBVIOUS
  <2>2. \A c \in Calls : step[c] = 0 /\ program[c] = <<>> /\ pc[c] = "idle" /\ outcome[c] = "new"
    BY DEF PoolInit
  <2>3. \A c \in Calls : step[c] \in 0 .. Len(program[c])
    BY <2>1, <2>2
  <2> QED
    BY <2>2, <2>3 DEF CallsOK
<1>4. RowsOK
  BY DEF PoolInit, RowsOK, RowsOf
<1> QED
  BY <1>1, <1>2, <1>3, <1>4 DEF PoolInv

LEMMA PoolInvStep == PoolInv /\ [PoolNext]_poolVars => PoolInv'
  BY PoolTypeStep, ClientsStep, LinksStep, SessionsStep, CallsStep, RowsStep DEF PoolInv

(* The pool is only used through withTenant(): every step of a request is  *)
(* one of the pool, or leaves it alone.                                    *)
LEMMA RequestsUseThePool == [Next]_vars => [PoolNext]_poolVars
<1> SUFFICES ASSUME [Next]_vars PROVE [PoolNext]_poolVars
  OBVIOUS
<1>1. \A r \in Reqs : Key(r) \in Calls /\ Handler(r) \in Calls
  BY RequestsAssumption DEF Key, Handler
<1>2. ASSUME NEW r \in Reqs, RequestStep(r)
      PROVE  [PoolNext]_poolVars
  <2>1. CASE CacheHit(r) \/ TurnAway(r) \/ Answer(r)
    BY <2>1 DEF CacheHit, TurnAway, Answer
  <2>2. CASE Discard(Key(r))
    BY <1>1, <2>2 DEF PoolNext
  <2>3. CASE \/ \E p \in Programs[Key(r)] : Call(Key(r), p)
             \/ \E p \in Programs[Handler(r)] : Call(Handler(r), p)
    BY <1>1, <2>3 DEF PoolNext
  <2> QED
    BY <1>2, <2>1, <2>2, <2>3 DEF RequestStep, CacheMiss, Looked, LookupFailed, Touched, Handle
<1>3. ASSUME NEW c \in Flushes, Flush(c)
      PROVE  [PoolNext]_poolVars
  BY <1>3, RequestsAssumption DEF Flush, PoolNext
<1>4. ASSUME NEW c \in Calls, PoolStep(c)
      PROVE  [PoolNext]_poolVars
  BY <1>4 DEF PoolStep, PoolNext
<1>5. CASE WorkerDies
  BY <1>5 DEF WorkerDies, PoolNext
<1>6. CASE UNCHANGED vars
  BY <1>6 DEF vars, poolVars
<1> QED
  BY <1>2, <1>3, <1>4, <1>5, <1>6 DEF Next

LEMMA PoolInvAlways == Spec => []PoolInv
<1>1. Init => PoolInv
  BY PoolInvInit DEF Init
<1>2. PoolInv /\ [Next]_vars => PoolInv'
  BY PoolInvStep, RequestsUseThePool
<1> QED
  BY <1>1, <1>2, PTL DEF Spec

-----------------------------------------------------------------------------
(* What follows.                                                           *)

(* Where a request is, and what that says of its handler's call: an answer *)
(* passes on the outcome of the call, and only a call that is over has one.*)
StagesOK ==
  \A r \in Reqs :
    /\ stage[r] \in {"new", "lookup", "checks"} => pc[Handler(r)] = "idle"
    /\ stage[r] = "handler" => pc[Handler(r)] # "idle" /\ outcome[Handler(r)] # "gone"
    /\ stage[r] \in {"new", "lookup", "checks", "handler"} => r \notin metered
    /\ stage[r] = "answered" =>
         /\ answer[r] = "ok" =>
              /\ r \in metered
              /\ pc[Handler(r)] = "done" /\ outcome[Handler(r)] = "ok"
         /\ answer[r] # "ok" =>
              /\ r \notin metered
              /\ \/ pc[Handler(r)] = "idle"
                 \/ pc[Handler(r)] = "done" /\ outcome[Handler(r)] = answer[r]

LEMMA CallStepIsLive ==
  ASSUME PoolInv, NEW c \in Calls, CallStep(c)
  PROVE  pc[c] \notin {"idle", "done"} /\ pc'[c] # "idle" /\ outcome'[c] # "gone"
  BY DEF CallStep, Connect, ConnectFails, Begin, SetConfig, Select, Insert, StatementFails,
     HandlerThrows, Commit, CommitUnacknowledged, ConnectionLost, Rollback, Refused, Fail,
     Finish, AfterStage, AtCommit, Running, PoolInv, PoolTypeOK, CallsOK

ReqsOK ==
  /\ stage \in [Reqs -> {"new", "lookup", "checks", "handler", "answered", "gone"}]
  /\ metered \subseteq Reqs
  /\ answer \in [Reqs -> {"none", "ok", "problem", "error"}]

LEMMA StagesStep == PoolInv /\ ReqsOK /\ StagesOK /\ [Next]_vars => ReqsOK' /\ StagesOK'
<1> SUFFICES ASSUME PoolInv, ReqsOK, StagesOK, [Next]_vars PROVE ReqsOK' /\ StagesOK'
  OBVIOUS
<1>t. PoolTypeOK /\ CallsOK
  BY DEF PoolInv
<1>d. \A r, q \in Reqs :
        /\ Key(r) \in Calls /\ Handler(r) \in Calls
        /\ Key(r) # Handler(q) /\ Handler(r) \notin Flushes
        /\ r # q => Handler(r) # Handler(q)
  BY RequestsAssumption DEF Key, Handler
(* A step that leaves the handlers' calls alone.                           *)
<1>1. ASSUME NEW r \in Reqs, NEW s,
             \A q \in Reqs : pc'[Handler(q)] = pc[Handler(q)] /\ outcome'[Handler(q)] = outcome[Handler(q)],
             UNCHANGED metered,
             \/ stage[r] \in {"new", "lookup"} /\ GoTo(r, s) /\ s \in {"lookup", "checks"}
                  /\ UNCHANGED answer
             \/ stage[r] \in {"lookup", "checks"} /\ s \in {"problem", "error"} /\ Tell(r, s)
      PROVE  ReqsOK' /\ StagesOK'
  BY <1>1 DEF ReqsOK, StagesOK, GoTo, Tell
<1>2. ASSUME NEW r \in Reqs, (\E p \in Programs[Key(r)] : Call(Key(r), p)) \/ Discard(Key(r))
      PROVE  \A q \in Reqs : /\ pc'[Handler(q)] = pc[Handler(q)]
                             /\ outcome'[Handler(q)] = outcome[Handler(q)]
  BY <1>2, <1>d, <1>t DEF Call, Discard, PoolTypeOK
<1>3. ASSUME NEW r \in Reqs, CacheHit(r) \/ CacheMiss(r) \/ Looked(r) \/ LookupFailed(r)
      PROVE  ReqsOK' /\ StagesOK'
  <2>1. CASE CacheHit(r)
    BY <2>1, <1>1 DEF CacheHit, poolVars
  <2>2. CASE CacheMiss(r) \/ Looked(r) \/ LookupFailed(r)
    BY <2>2, <1>1, <1>2 DEF CacheMiss, Looked, LookupFailed
  <2> QED
    BY <1>3, <2>1, <2>2
<1>4. ASSUME NEW r \in Reqs, Touched(r)
      PROVE  ReqsOK' /\ StagesOK'
  BY <1>4, <1>2 DEF Touched, reqVars, ReqsOK, StagesOK
<1>5. ASSUME NEW r \in Reqs, TurnAway(r)
      PROVE  ReqsOK' /\ StagesOK'
  BY <1>5, <1>1 DEF TurnAway, poolVars
<1>6. ASSUME NEW r \in Reqs, Handle(r)
      PROVE  ReqsOK' /\ StagesOK'
  <2>1. /\ pc'[Handler(r)] = "connect" /\ outcome'[Handler(r)] = "open"
        /\ \A q \in Reqs : q # r => /\ pc'[Handler(q)] = pc[Handler(q)]
                                    /\ outcome'[Handler(q)] = outcome[Handler(q)]
    BY <1>6, <1>d, <1>t DEF Handle, Call, PoolTypeOK
  <2> QED
    BY <1>6, <2>1 DEF Handle, MeteredBefore, GoTo, ReqsOK, StagesOK
<1>7. ASSUME NEW r \in Reqs, Answer(r)
      PROVE  ReqsOK' /\ StagesOK'
  <2>1. pc[Handler(r)] = "done" /\ outcome[Handler(r)] \in {"ok", "problem", "error"}
    BY <1>7, <1>d, <1>t DEF Answer, CallsOK, StagesOK
  <2>2. ReqsOK'
    BY <1>7, <2>1 DEF Answer, Tell, GoTo, ReqsOK
  <2> QED
    BY <1>7, <2>1, <2>2 DEF Answer, Tell, GoTo, ReqsOK, StagesOK, poolVars
<1>8. ASSUME NEW c \in Flushes, Flush(c)
      PROVE  ReqsOK' /\ StagesOK'
  <2>1. \A q \in Reqs : pc'[Handler(q)] = pc[Handler(q)] /\ outcome'[Handler(q)] = outcome[Handler(q)]
    BY <1>8, <1>d, <1>t DEF Flush, Call, PoolTypeOK
  <2> QED
    BY <1>8, <2>1 DEF Flush, reqVars, ReqsOK, StagesOK
<1>9. ASSUME NEW c \in Calls, PoolStep(c)
      PROVE  ReqsOK' /\ StagesOK'
  <2>1. /\ \A d \in Calls : d # c => pc'[d] = pc[d] /\ outcome'[d] = outcome[d]
        /\ pc[c] \notin {"idle", "done"} /\ pc'[c] # "idle" /\ outcome'[c] # "gone"
    BY <1>9, OthersKeepTheirSessions, CallStepIsLive DEF PoolStep
  <2> QED
    BY <1>9, <1>d, <2>1 DEF PoolStep, reqVars, ReqsOK, StagesOK
<1>10. CASE WorkerDies
  <2>1. \A c \in Calls :
          /\ pc'[c] = (IF pc[c] \notin {"idle", "done"} THEN "done" ELSE pc[c])
          /\ outcome'[c] = (IF outcome[c] = "open" THEN "gone" ELSE outcome[c])
    BY <1>10 DEF WorkerDies, Crash
  <2> QED
    BY <1>10, <1>d, <2>1 DEF WorkerDies, ReqsOK, StagesOK
<1>11. CASE UNCHANGED vars
  BY <1>11 DEF vars, poolVars, reqVars, ReqsOK, StagesOK
<1> QED
  BY <1>3, <1>4, <1>5, <1>6, <1>7, <1>8, <1>9, <1>10, <1>11 DEF Next, RequestStep

LEMMA StagesAlways == Spec => [](PoolInv /\ ReqsOK /\ StagesOK)
<1>1. Init => PoolInv /\ ReqsOK /\ StagesOK
  BY PoolInvInit, RequestsAssumption
     DEF Init, PoolInit, ReqsOK, StagesOK, Handler
<1>2. PoolInv /\ [Next]_vars => PoolInv'
  BY PoolInvStep, RequestsUseThePool
<1> QED
  BY <1>1, <1>2, StagesStep, PTL DEF Spec

(* The connections, the calls and the requests stay well-formed.           *)
THEOREM TypeCorrect == Spec => []TypeOK
<1>1. PoolInv /\ ReqsOK => TypeOK
  BY DEF PoolInv, ReqsOK, TypeOK
<1> QED
  BY <1>1, StagesAlways, PTL

(* A client is told what happened, and a call is metered if and only if it *)
(* is told of its success.                                                 *)
THEOREM ToldTheTruth == Spec => []AnswerIsTrue
<1>1. PoolInv /\ StagesOK => AnswerIsTrue
  <2> SUFFICES ASSUME PoolInv, StagesOK, NEW r \in Reqs, stage[r] = "answered"
               PROVE  IF answer[r] = "ok"
                      THEN r \in metered /\ RowsOf(Handler(r)) = RowsMade(Handler(r), program[Handler(r)])
                      ELSE r \notin metered /\
                           (RowsOf(Handler(r)) # {} => answer[r] = "error" /\ Handler(r) \in unsure)
    BY DEF AnswerIsTrue, RowsOf
  <2>1. Handler(r) \in Calls
    BY RequestsAssumption DEF Handler
  <2> QED
    BY <2>1 DEF PoolInv, RowsOK, StagesOK
<1> QED
  BY <1>1, StagesAlways, PTL

(* Tenants never meet on a connection, however transactions ended before.  *)
THEOREM TenantsNeverMeet == Spec => []Isolation
<1>1. PoolInv => Isolation
  <2> SUFFICES ASSUME PoolInv, NEW c \in Calls, NEW r \in rows, r.by = c
               PROVE  r.tenant = TenantOf[c]
    BY DEF PoolInv, SessionsOK, RowsOK, InContext, Isolation
  <2>1. RowsOf(c) # {} /\ r \in RowsMade(c, program[c])
    BY DEF PoolInv, RowsOK, RowsOf
  <2>2. program[c] \in Programs[c] /\ Len(program[c]) \in 0 .. Len(program[c])
    BY <2>1, StatementsAssumption DEF PoolInv, RowsOK, CallsOK
  <2> QED
    BY <2>1, <2>2, RowsAreTheCalls DEF RowsMade
<1> QED
  BY <1>1, PoolInvAlways, PTL

(* A call leaves all of its rows or none.                                  *)
THEOREM NeverInPart == Spec => []AllOrNothing
<1>1. PoolInv => AllOrNothing
  BY DEF PoolInv, RowsOK, RowsOf, AllOrNothing
<1> QED
  BY <1>1, PoolInvAlways, PTL

-----------------------------------------------------------------------------
(* withTenant() implements Transactions.                                   *)

(* Both speak of the same statements and rows.                             *)
LEMMA SameStatements ==
  /\ \A c, p, i : Promise!RowMade(c, p, i) = RowMade(c, p, i)
  /\ \A c, p : Promise!RowsMade(c, p) = RowsMade(c, p)
  /\ \A s, r : Promise!Matches(s, r) = Matches(s, r)
  /\ \A s, found : Promise!Refuses(s, found) = Refuses(s, found)
  /\ \A q, r : Promise!SameName(q, r) = SameName(q, r)
  /\ \A r : Promise!KeysHeld(r) = KeysHeld(r)
<1>1. \A c, p, i : Promise!RowMade(c, p, i) = RowMade(c, p, i)
  BY DEF RowMade, Promise!RowMade
<1>2. \A c, p : Promise!RowsMade(c, p) = RowsMade(c, p)
  BY DEF RowsMade, RowsUpTo, RowMade, Promise!RowsMade, Promise!RowsUpTo, Promise!RowMade
<1>3. \A s, r : Promise!Matches(s, r) = Matches(s, r)
  BY Zenon DEF Matches, Promise!Matches
<1>4. \A s, found : Promise!Refuses(s, found) = Refuses(s, found)
  BY Zenon DEF Refuses, Promise!Refuses
<1>5. \A q, r : Promise!SameName(q, r) = SameName(q, r)
  BY Zenon DEF SameName, Promise!SameName
<1>6. \A r : Promise!KeysHeld(r) = KeysHeld(r)
  BY Zenon DEF KeysHeld, Promise!KeysHeld
<1> QED
  BY <1>1, <1>2, <1>3, <1>4, <1>5, <1>6

(* A transaction that has just begun, and one that has ended, has made no  *)
(* rows.                                                                   *)
LEMMA MadeInTransaction ==
  ASSUME PoolInv, NEW c \in Calls
  PROVE  /\ outcome[c] # "open" => Made(c) = {}
         /\ pc[c] # "run" => Made(c) = {}
         /\ pc[c] = "run" => Made(c) = SessionOf(c).pending
  BY DEF PoolInv, CallsOK, PoolTypeOK, Made

(* What others have made does not change in a step of the call.            *)
LEMMA OthersMade ==
  ASSUME PoolInv, NEW c \in Calls, CallStep(c)
  PROVE  \A d \in Calls : d # c => Made(d)' = Made(d)
  BY OthersKeepTheirSessions DEF Made

LEMMA MadeStutters ==
  ASSUME PoolInv, NEW c \in Calls, CallStep(c), Made(c)' = Made(c),
         UNCHANGED <<program, step, seen, rows, outcome>>
  PROVE  UNCHANGED Promise!txVars
<1>1. \A d \in Calls : Made(d)' = Made(d)
  BY OthersMade
<1> QED
  BY <1>1 DEF Promise!txVars

(* The rows made by the call, the others' as they are.                     *)
LEMMA MadeBy ==
  ASSUME PoolInv, NEW c \in Calls, CallStep(c)
  PROVE  [d \in Calls |-> Made(d)]' =
           [[d \in Calls |-> Made(d)] EXCEPT ![c] = Made(c)']
  BY OthersMade

LEMMA PromiseCalls ==
  ASSUME PoolInv, NEW c \in Calls, (\E p \in Programs[c] : Call(c, p)) \/ Discard(c)
  PROVE  Promise!TxNext
<1>1. \A d \in Calls : Made(d)' = Made(d)
  <2>1. ASSUME NEW d \in Calls, d # c
        PROVE  Made(d)' = Made(d)
    BY <2>1 DEF Call, Discard, Made, SessionOf, PoolInv, PoolTypeOK
  <2>2. Made(c)' = {} /\ Made(c) = {}
    BY DEF Call, Discard, Made, Spent, PoolInv, PoolTypeOK
  <2> QED
    BY <2>1, <2>2
<1>2. /\ pc[c] = "idle" => outcome[c] = "new"
      /\ Spent(c) => Promise!TxSpent(c)
  BY SameStatements DEF PoolInv, CallsOK, Spent, Promise!TxSpent
<1>3. ASSUME NEW p \in Programs[c], Call(c, p)
      PROVE  Promise!TxNext
  <2>1. Promise!TxCall(c, p)
    BY <1>1, <1>2, <1>3 DEF Call, Promise!TxCall
  <2> QED
    BY <2>1 DEF Promise!TxNext
<1>4. CASE Discard(c)
  <2>1. Promise!TxDiscard(c)
    BY <1>1, <1>2, <1>4 DEF Discard, Promise!TxDiscard
  <2> QED
    BY <2>1 DEF Promise!TxNext
<1> QED
  BY <1>3, <1>4

(* Every failure before COMMIT is an abort.                                *)
LEMMA PromiseAborts ==
  ASSUME PoolInv, NEW c \in Calls, CallStep(c), outcome[c] = "open", pc'[c] # "run",
         NEW what \in {"problem", "error"}, outcome' = [outcome EXCEPT ![c] = what],
         UNCHANGED <<program, step, seen, rows>>
  PROVE  Promise!TxNext
<1>1. Made(c)' = {}
  BY DEF Made
<1>2. Promise!TxAbort(c)
  BY <1>1, MadeBy DEF Promise!TxAbort, Promise!TxEnds
<1> QED
  BY <1>2 DEF Promise!TxNext

(* Preparing a transaction, and giving up its client, is not seen.         *)
LEMMA PromisePrepares ==
  ASSUME PoolInv, NEW c \in Calls, Connect(c) \/ Begin(c) \/ SetConfig(c) \/ Rollback(c)
  PROVE  UNCHANGED Promise!txVars
<1>1. CallStep(c)
  BY DEF CallStep
<1>2. Made(c) = {}
  BY DEF Connect, Begin, SetConfig, Rollback, Made
<1>3. UNCHANGED <<program, step, seen, rows, outcome>>
  BY DEF Connect, Begin, SetConfig, Rollback
<1>4. Made(c)' = {}
  <2>1. CASE pc'[c] # "run"
    BY <2>1 DEF Made
  <2>2. CASE pc'[c] = "run"
    <3>1. Made(c)' = RowsUpTo(c, program'[c], step'[c])
      BY <1>1, <2>2, OwnSession DEF Made
    <3>2. step'[c] = 0
      BY <1>3, <2>2 DEF Connect, Begin, SetConfig, Rollback, Finish, PoolInv, PoolTypeOK, CallsOK
    <3> QED
      BY <3>1, <3>2, NoneYet
  <2> QED
    BY <2>1, <2>2
<1> QED
  BY <1>1, <1>2, <1>3, <1>4, MadeStutters

(* A SELECT finds the rows of its own tenant.                              *)
LEMMA PromiseSelects ==
  ASSUME PoolInv, NEW c \in Calls, Select(c)
  PROVE  Promise!TxNext
<1>1. pc[c] = "run" /\ outcome[c] = "open" /\ CallStep(c)
  BY DEF Select, Running, CallStep, PoolInv, CallsOK
<1>2. Made(c) = SessionOf(c).pending /\ CurrentTenant(SessionOf(c).setting) = TenantOf[c]
  BY <1>1 DEF Made, PoolInv, SessionsOK, InContext
<1>3. Found(c) = Promise!TxFound(c)
  BY <1>2, SameStatements DEF Found, Visible, Policy, Promise!TxFound
<1>4. Promise!TxRunning(c, {"one", "none", "list"})
  BY <1>1 DEF Select, Running, Promise!TxRunning
<1>5. CASE Refuses(program[c][step[c] + 1], Found(c))
  <2>1. Fail(c, "problem") /\ UNCHANGED step
    BY <1>5 DEF Select
  <2>2. Made(c)' = {}
    BY <2>1 DEF Fail, Made, PoolInv, PoolTypeOK
  <2>3. Promise!TxEnds(c, "problem")
    BY <1>1, <2>1, <2>2, MadeBy DEF Fail, Promise!TxEnds
  <2>4. Promise!TxSelect(c)
    BY <1>3, <1>4, <1>5, <2>1, <2>3, SameStatements DEF Select, Promise!TxSelect
  <2> QED
    BY <2>4 DEF Promise!TxNext
<1>6. CASE ~ Refuses(program[c][step[c] + 1], Found(c))
  <2>1. step' = [step EXCEPT ![c] = @ + 1] /\ UNCHANGED <<pc, outcome>>
    BY <1>6 DEF Select
  <2>2. Made(c)' = Made(c)
    BY <2>1 DEF Select, Made, SessionOf
  <2>3. UNCHANGED [d \in Calls |-> Made(d)]
    BY <1>1, <2>2, OthersMade
  <2>4. Promise!TxSelect(c)
    BY <1>3, <1>4, <1>6, <2>1, <2>3, SameStatements DEF Select, Promise!TxSelect
  <2> QED
    BY <2>4 DEF Promise!TxNext
<1> QED
  BY <1>5, <1>6

(* The unique index keeps a name from every other call's rows as well.     *)
LEMMA PromiseInserts ==
  ASSUME PoolInv, NEW c \in Calls, Insert(c)
  PROVE  Promise!TxNext
<1> DEFINE r == RowMade(c, program[c], step[c] + 1)
<1>1. /\ pc[c] = "run" /\ outcome[c] = "open" /\ CallStep(c)
      /\ UNCHANGED <<program, client, link, rows, seen, unsure>>
      /\ step[c] < Len(program[c]) /\ program[c][step[c] + 1].op = "insert"
  BY DEF Insert, Running, CallStep, PoolInv, CallsOK
<1>2. CASE Refused(c) /\ UNCHANGED step
  BY <1>1, <1>2, PromiseAborts DEF Refused, Fail, PoolInv, PoolTypeOK
<1>3. CASE /\ server' = [server EXCEPT ![link[client[c]]].pending = @ \cup {r}]
           /\ step' = [step EXCEPT ![c] = @ + 1]
           /\ UNCHANGED <<pc, outcome>>
           /\ \A q \in rows \cup SessionOf(c).pending : ~ SameName(q, r)
           /\ KeysHeld(r)
  <2>1. \A q \in UNION {Made(d) : d \in Calls} : ~ SameName(q, r)
    <3> SUFFICES ASSUME NEW d \in Calls, NEW q \in Made(d)
                 PROVE  ~ SameName(q, r)
      OBVIOUS
    <3>1. pc[d] = "run" /\ q \in SessionOf(d).pending
      BY DEF Made
    <3>2. CASE d = c
      BY <1>3, <3>1, <3>2
    <3>3. CASE d # c
      <4>1. link[client[d]] \in Servers /\ link[client[d]] # link[client[c]]
        BY <1>1, <3>1, <3>3, Connected DEF PoolInv
      <4> QED
        BY <3>1, <4>1 DEF Insert, SessionOf
    <3> QED
      BY <3>2, <3>3
  <2>2. Made(c) = RowsUpTo(c, program[c], step[c]) /\ pc'[c] = "run"
    BY <1>1, <1>3 DEF Made, PoolInv, SessionsOK, InContext
  <2>3. Made(c)' = RowsUpTo(c, program[c], step[c] + 1)
    <3>1. step'[c] = step[c] + 1
      BY <1>3 DEF PoolInv, PoolTypeOK
    <3> QED
      BY <1>1, <2>2, <3>1, OwnSession DEF Made
  <2>4. Made(c)' = Made(c) \cup {r}
    BY <1>1, <2>2, <2>3, OneMore DEF PoolInv, CallsOK
  <2>5. [d \in Calls |-> Made(d)]' = [[d \in Calls |-> Made(d)] EXCEPT ![c] = @ \cup {r}]
    BY <1>1, <2>4, MadeBy
  <2>6. Promise!TxInsert(c)
    BY <1>1, <1>3, <2>1, <2>5, SameStatements DEF Promise!TxInsert, Promise!TxRunning
  <2> QED
    BY <2>6 DEF Promise!TxNext
<1> QED
  BY <1>2, <1>3 DEF Insert

(* COMMIT, acknowledged or not.                                            *)
LEMMA PromiseCommits ==
  ASSUME PoolInv, NEW c \in Calls, Commit(c) \/ CommitUnacknowledged(c)
  PROVE  Promise!TxNext
<1>1. /\ AtCommit(c) /\ pc[c] = "run" /\ outcome[c] = "open" /\ CallStep(c)
      /\ rows' = Committed(SessionOf(c))
  BY DEF Commit, CommitUnacknowledged, AtCommit, CallStep, PoolInv, CallsOK
<1>2. rows' = rows \cup Made(c)
  BY <1>1, CommitStores DEF Made
<1>3. Made(c)' = {}
  BY DEF Commit, CommitUnacknowledged, Finish, Fail, Made, PoolInv, PoolTypeOK
<1>4. PICK what \in {"ok", "error"} : outcome' = [outcome EXCEPT ![c] = what]
  BY DEF Commit, CommitUnacknowledged, Fail
<1>5. Promise!TxEnds(c, what)
  BY <1>1, <1>3, <1>4, MadeBy DEF Promise!TxEnds
<1>6. Promise!TxCommit(c)
  BY <1>1, <1>2, <1>5 DEF Promise!TxCommit, AtCommit, Commit, CommitUnacknowledged
<1> QED
  BY <1>6 DEF Promise!TxNext

(* The worker's death ends every open transaction.                         *)
LEMMA PromiseCrashes ==
  ASSUME PoolInv, Crash
  PROVE  Promise!TxNext
<1>1. \A c \in Calls : Made(c)' = {}
  BY DEF Crash, Made
<1>2. \A c \in Calls : outcome[c] # "open" => Made(c) = {}
  BY MadeInTransaction
<1>3. [c \in Calls |-> Made(c)]' =
        [c \in Calls |-> IF outcome[c] = "open" THEN {} ELSE [d \in Calls |-> Made(d)][c]]
  BY <1>1, <1>2
<1>4. Promise!TxCrash
  BY <1>3 DEF Crash, Promise!TxCrash
<1> QED
  BY <1>4 DEF Promise!TxNext

LEMMA PromiseStep == PoolInv /\ [PoolNext]_poolVars => [Promise!TxNext]_(Promise!txVars)
<1> SUFFICES ASSUME PoolInv, [PoolNext]_poolVars
             PROVE  Promise!TxNext \/ UNCHANGED Promise!txVars
  OBVIOUS
<1>1. ASSUME NEW c \in Calls,
             \/ ConnectFails(c) \/ StatementFails(c) \/ HandlerThrows(c) \/ ConnectionLost(c)
      PROVE  Promise!TxNext
  <2>1. /\ CallStep(c) /\ outcome[c] = "open" /\ pc'[c] # "run"
        /\ UNCHANGED <<program, step, seen, rows>>
    BY <1>1 DEF CallStep, ConnectFails, StatementFails, HandlerThrows, ConnectionLost, Refused,
       Fail, PoolInv, PoolTypeOK, CallsOK
  <2>2. \E what \in {"problem", "error"} : outcome' = [outcome EXCEPT ![c] = what]
    BY <1>1 DEF ConnectFails, StatementFails, HandlerThrows, ConnectionLost, Refused, Fail
  <2> QED
    BY <2>1, <2>2, PromiseAborts
<1>2. CASE UNCHANGED poolVars
  BY <1>2 DEF poolVars, Promise!txVars, Made, SessionOf
<1> QED
  BY <1>1, <1>2, PromiseCalls, PromisePrepares, PromiseSelects, PromiseInserts,
     PromiseCommits, PromiseCrashes DEF PoolNext, CallStep

(* The pool, PgBouncer and the policies keep what withTenant() promises.   *)
THEOREM KeepsThePromise == Spec => KeepsPromise
<1>1. Init => Promise!TxInit
  BY DEF Init, PoolInit, Promise!TxInit, Made
<1>2. PoolInv /\ [Next]_vars => [Promise!TxNext]_(Promise!txVars)
  BY PromiseStep, RequestsUseThePool
<1> QED
  BY <1>1, <1>2, PoolInvAlways, PTL DEF Spec, KeepsPromise, Promise!TxSpec

-----------------------------------------------------------------------------
(* The authoring routes on Transactions, for all calls and all bodies: the *)
(* only part that uses CatalogAssumption.                                  *)

(* What comes before the parts in a program: SELECTs, and the INSERT of    *)
(* the whole, the last of its k statements.                                *)
HeadOK(c, h, k, table) ==
  /\ \A i \in 1..k : i < k => h[i].op \in {"one", "none"}
  /\ \A i, j \in 1..k :
       Picks(h[i]) /\ PartOf(h[j].table, h[i].table) => i < j /\ Picks(h[j])
  /\ \A i \in 1..k : Picks(h[i]) => ~ PartOf(table, h[i].table)
  /\ h[k].op = "insert" /\ h[k].of # c /\ PartOf(table, h[k].table)
  /\ h[k].of # NULL => \E j \in 1..k : j < k /\ h[j].op = "one" /\ h[j].of = h[k].of
  /\ h[k].table # "course" => \A ref \in h[k].refs :
       \E j \in 1..k : j < k /\ h[j].op = "one" /\ ref = <<h[j].table, h[j].of>>

LEMMA Concatenated ==
  ASSUME NEW S, NEW s \in Seq(S), NEW t \in Seq(S)
  PROVE  /\ Len(s \o t) = Len(s) + Len(t)
         /\ \A i \in 1..Len(s) + Len(t) :
              (s \o t)[i] = IF i <= Len(s) THEN s[i] ELSE t[i - Len(s)]
BY ConcatProperties, Zenon

(* A program that ends with the whole and its parts is as the argument     *)
(* needs it, if what comes before the parts is.                            *)
LEMMA WithParts ==
  ASSUME NEW c \in Calls, NEW S, NEW h \in Seq(S), NEW k \in Nat, k = Len(h), k >= 1,
         NEW table, NEW names \in Seq(Names \cup {NULL}), HeadOK(c, h, k, table)
  PROVE  ProgramOK(c, h \o Parts(table, c, names))
<1> DEFINE ps == Parts(table, c, names)
           p == h \o ps
<1> DEFINE T == S \cup {Ins(table, c, name, {}) : name \in Names \cup {NULL}}
<1>n. NULL \notin Calls
  BY StatementsAssumption
<1>1. /\ h \in Seq(T) /\ ps \in Seq(T)
      /\ Len(ps) = Len(names) /\ Len(names) \in Nat
      /\ \A i \in 1..Len(ps) : /\ ps[i].op = "insert" /\ ps[i].of = c
                                /\ ps[i].table = table /\ ps[i].refs = {}
  <2>1. h \in Seq(T)
    OBVIOUS
  <2>2. \A i \in 1..Len(names) : Ins(table, c, names[i], {}) \in T
    OBVIOUS
  <2>3. ps \in Seq(T) /\ Len(ps) = Len(names) /\ Len(names) \in Nat
    <3> HIDE DEF T
    <3> QED
      BY <2>2 DEF Parts
  <2> QED
    BY <2>1, <2>3 DEF Parts, Ins
<1>2. /\ Len(p) = k + Len(ps) /\ Len(p) \in Nat
      /\ \A i \in 1..k + Len(ps) : p[i] = IF i <= k THEN h[i] ELSE ps[i - k]
  <2>1. Len(h) \in Nat /\ Len(ps) \in Nat
    BY <1>1
  <2>2. /\ Len(p) = Len(h) + Len(ps)
        /\ \A i \in 1..Len(h) + Len(ps) : p[i] = IF i <= Len(h) THEN h[i] ELSE ps[i - Len(h)]
    <3> HIDE DEF ps, T
    <3> QED
      BY <1>1, Concatenated
  <2> HIDE DEF p, ps
  <2> QED
    BY <2>1, <2>2
<1> HIDE DEF p, ps
<1>3. \A i \in 1..k : i \in 1..Len(p) /\ p[i] = h[i]
  BY <1>1, <1>2
<1>4. /\ k \in 1..Len(p) /\ k \in 1..k
      /\ \A i \in 1..Len(p) : i \in Nat /\ (i \in 1..k \/ i > k)
  BY <1>1, <1>2
<1>5. ASSUME NEW i \in 1..Len(p), i > k
      PROVE  /\ p[i].op = "insert" /\ p[i].of = c
             /\ p[i].table = table /\ p[i].refs = {}
  <2>1. i - k \in 1..Len(ps) /\ p[i] = ps[i - k]
    BY <1>1, <1>2, <1>5
  <2> QED
    BY <1>1, <2>1
<1>6. ~ Picks(h[k]) /\ h[k].op \notin {"one", "none"}
  BY DEF Picks, HeadOK
<1>7. ASSUME NEW i \in Inserts(p)
      PROVE  /\ i \in 1..Len(p) /\ ((i = k /\ p[i] = h[k]) \/ i > k)
             /\ i > k => p[i].of = c /\ p[i].table = table /\ p[i].refs = {}
  <2>1. i \in 1..Len(p) /\ p[i].op = "insert"
    BY DEF Inserts
  <2>2. i \in 1..k /\ i < k => p[i].op \in {"one", "none"}
    BY <1>3 DEF HeadOK
  <2> QED
    BY <1>3, <1>4, <1>5, <2>1, <2>2
<1>8. k \in Inserts(p)
  BY <1>3, <1>4 DEF Inserts, HeadOK
<1>9. \A i \in Inserts(p) :
        \/ p[i].of = NULL
        \/ p[i].of = c /\ \E j \in Inserts(p) : j < i /\ p[j].of # c
        \/ p[i].of # c /\ \E j \in 1..Len(p) : j < i /\ p[j].op = "one" /\ p[j].of = p[i].of
  <2> SUFFICES ASSUME NEW i \in Inserts(p)
               PROVE  \/ p[i].of = NULL
                      \/ p[i].of = c /\ \E j \in Inserts(p) : j < i /\ p[j].of # c
                      \/ p[i].of # c /\ \E j \in 1..Len(p) :
                           j < i /\ p[j].op = "one" /\ p[j].of = p[i].of
    OBVIOUS
  <2>1. CASE i = k /\ p[i] = h[k]
    BY <1>3, <2>1 DEF HeadOK
  <2>2. CASE i > k
    <3>1. k < i /\ p[k].of # c
      BY <1>3, <1>4, <1>7, <2>2 DEF HeadOK
    <3> QED
      BY <1>7, <1>8, <2>2, <3>1
  <2> QED
    BY <1>7, <2>1, <2>2
<1>10. \A i \in Inserts(p) : p[i].table # "course" =>
         \A ref \in p[i].refs :
           \E j \in 1..Len(p) : j < i /\ p[j].op = "one" /\ ref = <<p[j].table, p[j].of>>
  <2> SUFFICES ASSUME NEW i \in Inserts(p), p[i].table # "course", NEW ref \in p[i].refs
               PROVE  \E j \in 1..Len(p) : j < i /\ p[j].op = "one" /\ ref = <<p[j].table, p[j].of>>
    OBVIOUS
  <2>1. i = k /\ p[i] = h[k]
    BY <1>7
  <2>2. PICK j \in 1..k : j < k /\ h[j].op = "one" /\ ref = <<h[j].table, h[j].of>>
    BY <2>1 DEF HeadOK
  <2> QED
    BY <1>3, <2>1, <2>2
<1>11. \A i, j \in Inserts(p) : p[i].of # c /\ p[j].of = c => PartOf(p[j].table, p[i].table)
  BY <1>7 DEF HeadOK
<1>12. \A i, j \in 1..Len(p) :
         Picks(p[i]) /\ PartOf(p[j].table, p[i].table) => Picks(p[j]) /\ i < j
  <2> SUFFICES ASSUME NEW i \in 1..Len(p), NEW j \in 1..Len(p),
                      Picks(p[i]), PartOf(p[j].table, p[i].table)
               PROVE  Picks(p[j]) /\ i < j
    OBVIOUS
  <2>1. i \in 1..k /\ p[i] = h[i]
    BY <1>3, <1>4, <1>5 DEF Picks
  <2>2. j \in 1..k /\ p[j] = h[j]
    BY <1>3, <1>4, <1>5, <2>1 DEF HeadOK
  <2> QED
    BY <2>1, <2>2 DEF HeadOK
<1>13. \A i \in 1..Len(p), j \in Inserts(p) : p[i].op # "insert" => i < j
  <2> SUFFICES ASSUME NEW i \in 1..Len(p), NEW j \in Inserts(p), p[i].op # "insert"
               PROVE  i < j
    OBVIOUS
  <2>1. i \in 1..k /\ i # k
    BY <1>3, <1>4, <1>5 DEF HeadOK
  <2>2. j \in Nat /\ (j = k \/ j > k)
    BY <1>4, <1>7
  <2> QED
    BY <2>1, <2>2
<1>14. ProgramOK(c, p)
  BY <1>9, <1>10, <1>11, <1>12, <1>13, Zenon DEF ProgramOK
<1> QED
  BY <1>14 DEF p, ps

(* The bodies are sequences of names.                                      *)
LEMMA BodiesAreSequences ==
  ASSUME NEW n \in Nat
  PROVE  /\ \A b \in Bodies(n) : b \in Seq(Names \cup {NULL})
         /\ \A k \in 0..n : [i \in 1..k |-> NULL] \in Seq(Names \cup {NULL})
<1>1. ASSUME NEW m \in 0..n, NEW b \in [1..m -> Names]
      PROVE  b \in Seq(Names \cup {NULL})
  <2>1. m \in Nat /\ b \in [1..m -> Names \cup {NULL}]
    OBVIOUS
  <2> QED
    BY <2>1
<1>2. ASSUME NEW k \in 0..n
      PROVE  [i \in 1..k |-> NULL] \in Seq(Names \cup {NULL})
  <2>1. k \in Nat /\ [i \in 1..k |-> NULL] \in [1..k -> Names \cup {NULL}]
    OBVIOUS
  <2> QED
    BY <2>1
<1> QED
  BY <1>1, <1>2 DEF Bodies

(* Every program of every route is as the argument needs it.               *)
LEMMA RoutesOK ==
  ASSUME NEW c \in Calls, NEW p, NEW n \in Nat, n = Len(p), IsRoute(c, p)
  PROVE  ProgramOK(c, p)
<1>n. NULL \notin Calls /\ Names \subseteq STRING
  BY StatementsAssumption, CatalogAssumption, Zenon
<1>k. 1..1 = {1} /\ 1..2 = {1, 2} /\ 1..3 = {1, 2, 3}
  OBVIOUS
<1>1. ASSUME NEW refs, NEW b \in Bodies(n),
             p = PostCourse(c, refs, b)
      PROVE  ProgramOK(c, p)
  <2> DEFINE h == <<Ins("course", NULL, NULL, refs)>>
  <2>1. /\ h \in Seq({h[1]}) /\ Len(h) = 1 /\ 1 \in Nat /\ 1 >= 1
        /\ b \in Seq(Names \cup {NULL})
    BY BodiesAreSequences
  <2>2. h[1].op = "insert" /\ h[1].of = NULL /\ h[1].table = "course"
    BY DEF Ins, One
  <2>3. HeadOK(c, h, 1, "course_module")
    <3> HIDE DEF h
    <3> QED
      BY <1>n, <1>k, <2>2 DEF HeadOK, PartOf, Picks
  <2>4. ProgramOK(c, h \o Parts("course_module", c, b))
    <3> HIDE DEF h
    <3> QED
      BY <2>1, <2>3, WithParts
  <2> QED
    BY <1>1, <2>4 DEF PostCourse
<1>2. ASSUME NEW d \in Calls \ {c}, NEW position \in Names, NEW k \in 0..n,
             p = PostLesson(c, d, position, k)
      PROVE  ProgramOK(c, p)
  <2> DEFINE h == <<One("course", d, NULL), Ins("lesson", d, position, {})>>
             names == [i \in 1..k |-> NULL]
  <2>1. /\ h \in Seq({h[1], h[2]}) /\ Len(h) = 2 /\ 2 \in Nat /\ 2 >= 1
        /\ names \in Seq(Names \cup {NULL})
    BY BodiesAreSequences
  <2>2. /\ h[1].op = "one" /\ h[1].of = d /\ h[1].table = "course"
        /\ h[2].op = "insert" /\ h[2].of = d /\ h[2].table = "lesson" /\ h[2].refs = {}
    BY DEF Ins, One
  <2>3. HeadOK(c, h, 2, "citation")
    <3> HIDE DEF h, names
    <3> QED
      BY <1>n, <1>k, <2>2 DEF HeadOK, PartOf, Picks
  <2>4. ProgramOK(c, h \o Parts("citation", c, names))
    <3> HIDE DEF h, names
    <3> QED
      BY <2>1, <2>3, WithParts
  <2> QED
    BY <1>2, <2>4 DEF PostLesson
<1>3. ASSUME NEW d \in Calls \ {c}, NEW position \in Names, NEW m \in Names, NEW k \in 0..n,
             p = PostLessonInModule(c, d, position, m, k)
      PROVE  ProgramOK(c, p)
  <2> DEFINE h == <<One("course", d, NULL), One("course_module", d, m),
                    Ins("lesson", d, position, {<<"course_module", d>>})>>
             names == [i \in 1..k |-> NULL]
  <2>1. /\ h \in Seq({h[1], h[2], h[3]}) /\ Len(h) = 3 /\ 3 \in Nat /\ 3 >= 1
        /\ names \in Seq(Names \cup {NULL})
    BY BodiesAreSequences
  <2>2. /\ h[1].op = "one" /\ h[1].of = d /\ h[1].table = "course"
        /\ h[2].op = "one" /\ h[2].of = d /\ h[2].table = "course_module"
        /\ h[3].op = "insert" /\ h[3].of = d /\ h[3].table = "lesson"
        /\ h[3].refs = {<<"course_module", d>>}
    BY DEF Ins, One
  <2>3. HeadOK(c, h, 3, "citation")
    <3> HIDE DEF h, names
    <3> QED
      BY <1>n, <1>k, <2>2 DEF HeadOK, PartOf, Picks
  <2>4. ProgramOK(c, h \o Parts("citation", c, names))
    <3> HIDE DEF h, names
    <3> QED
      BY <2>1, <2>3, WithParts
  <2> QED
    BY <1>3, <2>4 DEF PostLessonInModule
<1>4. ASSUME NEW d \in Calls \ {c}, NEW b \in Bodies(n),
             p = PostAssessment(c, d, b)
      PROVE  ProgramOK(c, p)
  <2> DEFINE h == <<One("course", d, NULL), Ins("assessment", d, NULL, {})>>
  <2>1. /\ h \in Seq({h[1], h[2]}) /\ Len(h) = 2 /\ 2 \in Nat /\ 2 >= 1
        /\ b \in Seq(Names \cup {NULL})
    BY BodiesAreSequences
  <2>2. /\ h[1].op = "one" /\ h[1].of = d /\ h[1].table = "course"
        /\ h[2].op = "insert" /\ h[2].of = d /\ h[2].table = "assessment" /\ h[2].refs = {}
    BY DEF Ins, One
  <2>3. HeadOK(c, h, 2, "assessment_item")
    <3> HIDE DEF h
    <3> QED
      BY <1>n, <1>k, <2>2 DEF HeadOK, PartOf, Picks
  <2>4. ProgramOK(c, h \o Parts("assessment_item", c, b))
    <3> HIDE DEF h
    <3> QED
      BY <2>1, <2>3, WithParts
  <2> QED
    BY <1>4, <2>4 DEF PostAssessment
<1>5. ASSUME NEW name \in Names, NEW b \in Bodies(n),
             p = PostScheme(c, name, b)
      PROVE  ProgramOK(c, p)
  <2> DEFINE h == <<[op |-> "none", table |-> "progression_scheme", of |-> NULL,
                     name |-> name, refs |-> {}],
                    Ins("progression_scheme", NULL, name, {})>>
  <2>1. /\ h \in Seq({h[1], h[2]}) /\ Len(h) = 2 /\ 2 \in Nat /\ 2 >= 1
        /\ b \in Seq(Names \cup {NULL})
    BY BodiesAreSequences
  <2>2. /\ h[1].op = "none"
        /\ h[2].op = "insert" /\ h[2].of = NULL /\ h[2].table = "progression_scheme"
        /\ h[2].refs = {}
    BY DEF Ins, One
  <2>3. HeadOK(c, h, 2, "rank")
    <3> HIDE DEF h
    <3> QED
      BY <1>n, <1>k, <2>2 DEF HeadOK, PartOf, Picks
  <2>4. ProgramOK(c, h \o Parts("rank", c, b))
    <3> HIDE DEF h
    <3> QED
      BY <2>1, <2>3, WithParts
  <2> QED
    BY <1>5, <2>4 DEF PostScheme
<1>6. ASSUME NEW k \in {"course", "lesson", "assessment"}, NEW d \in Calls \ {c},
             p = PostApproval(k, d)
      PROVE  ProgramOK(c, p)
  <2>1. /\ Len(p) = 2 /\ p[1].op = "one" /\ p[1].table = k /\ p[1].of = d
        /\ p[2].op = "insert" /\ p[2].table = "approval" /\ p[2].of = d /\ p[2].refs = {}
    BY <1>6 DEF PostApproval, One, Ins
  <2>2. Inserts(p) = {2}
    BY <1>k, <2>1 DEF Inserts
  <2> QED
    BY <1>n, <1>k, <2>1, <2>2 DEF ProgramOK, Picks, PartOf
<1>7. ASSUME NEW d \in Calls, p = GetCourse(d)
      PROVE  ProgramOK(c, p)
  <2>1. /\ Len(p) = 4 /\ p[1].op = "one" /\ p[1].table = "course"
        /\ p[2].op = "list" /\ p[2].table = "course_module"
        /\ p[3].op = "list" /\ p[3].table = "lesson"
        /\ p[4].op = "list" /\ p[4].table = "assessment"
    BY <1>7 DEF GetCourse, One, Many
  <2>2. 1..4 = {1, 2, 3, 4}
    OBVIOUS
  <2>3. Inserts(p) = {}
    BY <2>1, <2>2 DEF Inserts
  <2> QED
    BY <2>1, <2>2, <2>3 DEF ProgramOK, Picks, PartOf
<1>8. ASSUME NEW d \in Calls,
             p \in {GetLesson(d), GetAssessment(d), GetScheme(d), GetSchemes}
      PROVE  ProgramOK(c, p)
  <2> USE DEF GetLesson, GetAssessment, GetScheme, GetSchemes
  <2>1. Len(p) = 2 /\ Inserts(p) = {}
    BY <1>8 DEF Inserts, One, Many
  <2> QED
    BY <1>8, <2>1 DEF ProgramOK, One, Many, Picks, PartOf
<1>9. ASSUME NEW d \in Calls \cup {NULL}, p \in {GetApprovals(d), GetStale, GetCourses}
      PROVE  ProgramOK(c, p)
  <2> USE DEF GetApprovals, GetStale, GetCourses
  <2>1. Len(p) = 1 /\ Inserts(p) = {}
    BY <1>9 DEF Inserts, Many
  <2> QED
    BY <1>9, <2>1 DEF ProgramOK, Many, Picks, PartOf
<1>10. \/ \E refs : \E b \in Bodies(n) : p = PostCourse(c, refs, b)
       \/ \E name \in Names, b \in Bodies(n) : p = PostScheme(c, name, b)
       \/ \E d \in Calls \ {c} :
            \/ \E q \in Names, k \in 0..n : p = PostLesson(c, d, q, k)
            \/ \E q, m \in Names, k \in 0..n : p = PostLessonInModule(c, d, q, m, k)
            \/ \E b \in Bodies(n) : p = PostAssessment(c, d, b)
            \/ \E k \in {"course", "lesson", "assessment"} : p = PostApproval(k, d)
            \/ p \in {GetCourse(d), GetLesson(d), GetAssessment(d), GetScheme(d), GetApprovals(d)}
       \/ p \in {GetCourses, GetSchemes, GetApprovals(NULL), GetStale}
  BY Zenon DEF IsRoute
<1> QED
  BY <1>1, <1>2, <1>3, <1>4, <1>5, <1>6, <1>7, <1>8, <1>9, <1>10, Zenon

(* And every program that runs beside them.                                *)
LEMMA ProgramsOK ==
  ASSUME NEW c \in Calls, NEW p \in Programs[c]
  PROVE  ProgramOK(c, p)
<1>n. NULL \notin Calls /\ Len(p) \in Nat
  BY StatementsAssumption
<1>1. CASE p = OnKey
  <2>1. Len(p) = 1 /\ p[1].op = "list" /\ p[1].table = "api_key"
    BY <1>1 DEF OnKey, Many
  <2>2. 1..1 = {1}
    OBVIOUS
  <2>3. Inserts(p) = {}
    BY <2>1, <2>2 DEF Inserts
  <2> QED
    BY <2>1, <2>2, <2>3 DEF ProgramOK, Picks, PartOf
<1>2. CASE p = UsageBatch(Len(p))
  <2>1. \A i \in 1..Len(p) : p[i] = Ins("usage_event", NULL, NULL, {})
    BY <1>2 DEF UsageBatch
  <2>2. \A i \in 1..Len(p) : p[i].op = "insert" /\ p[i].of = NULL /\ p[i].refs = {}
    BY <2>1 DEF Ins
  <2> QED
    BY <1>n, <2>2 DEF ProgramOK, Inserts, Picks
<1> QED
  BY <1>1, <1>2, RoutesOK, CatalogAssumption

AuthoringInv ==
  CatalogTypeOK /\ StoredOK /\ ReadOK /\ OwnersExist

(* How far a call is in its program.                                       *)
LEMMA InItsProgram ==
  ASSUME CatalogTypeOK, NEW c \in Calls
  PROVE  /\ program[c] \in Seq(Statement) /\ Len(program[c]) \in Nat
         /\ step[c] \in Nat /\ step[c] <= Len(program[c])
         /\ ProgramOK(c, program[c])
         /\ program[c] = <<>> \/ program[c] \in Programs[c]
<1>1. CASE program[c] = <<>>
  <2>1. Len(program[c]) = 0 /\ program[c] \in Seq(Statement) /\ Inserts(program[c]) = {}
    BY <1>1 DEF Inserts
  <2>2. ProgramOK(c, program[c])
    BY <2>1 DEF ProgramOK
  <2> QED
    BY <1>1, <2>1, <2>2 DEF CatalogTypeOK
<1>2. CASE program[c] \in Programs[c]
  <2>1. program[c] \in Seq(Statement) /\ ProgramOK(c, program[c])
    BY <1>2, ProgramsOK, StatementsAssumption
  <2> QED
    BY <1>2, <2>1 DEF CatalogTypeOK
<1> QED
  BY <1>1, <1>2 DEF CatalogTypeOK

(* What was made together is of one tenant, and parts are of their whole.  *)
LEMMA MadeTogether ==
  ASSUME AuthoringInv, NEW r \in rows, NEW x \in rows,
         x.by = r.by
  PROVE  /\ r.tenant = TenantOf[r.by] /\ x.tenant = r.tenant
         /\ x.of = x.by /\ r.of # r.by => PartOf(x.table, r.table)
<1> DEFINE d == r.by  p == program[d]
<1>1. d \in Calls /\ r \in RowsMade(d, p) /\ x \in RowsMade(d, p)
  BY DEF AuthoringInv, StoredOK
<1>2. Len(p) \in Nat /\ ProgramOK(d, p)
  BY <1>1, InItsProgram DEF AuthoringInv
<1>3. r \in RowsUpTo(d, p, Len(p)) /\ x \in RowsUpTo(d, p, Len(p))
  BY <1>1 DEF RowsMade
<1> HIDE DEF p
<1>4. \A q \in RowsUpTo(d, p, Len(p)) :
        /\ q.tenant = TenantOf[d]
        /\ \E i \in Inserts(p) : q.of = p[i].of /\ q.table = p[i].table
  BY <1>2 DEF RowsUpTo, RowMade, Inserts
<1>5. PICK i \in Inserts(p) : r.of = p[i].of /\ r.table = p[i].table
  BY <1>3, <1>4
<1>6. PICK j \in Inserts(p) : x.of = p[j].of /\ x.table = p[j].table
  BY <1>3, <1>4
<1> QED
  BY <1>2, <1>3, <1>4, <1>5, <1>6 DEF ProgramOK

(* What a call has been shown stays whole when others commit.              *)
LEMMA ShownKept ==
  ASSUME NEW d \in Calls, ShownOK(d),
         program'[d] = program[d], step'[d] = step[d], seen'[d] = seen[d],
         rows \subseteq rows', \A x \in rows' \ rows, r \in rows : x.by # r.by
  PROVE  ShownOK(d)'
<1>1. seen'[d] \subseteq rows'
  BY DEF ShownOK
<1>2. \A r \in seen'[d] :
        /\ r.tenant = TenantOf[d]
        /\ \E i \in 1..step'[d] : Picks(program'[d][i]) /\ program'[d][i].table = r.table
  BY DEF ShownOK
<1>3. \A i \in 1..step'[d] : program'[d][i].op = "one" =>
        \E q \in rows' : /\ q.tenant = TenantOf[d] /\ q.by = program'[d][i].of
                         /\ q.table = program'[d][i].table
  BY DEF ShownOK
<1>4. \A r \in seen'[d], x \in rows', i \in 1..step'[d] :
        /\ x.by = r.by /\ x.of = x.by /\ r.of # r.by
        /\ Picks(program'[d][i]) /\ Matches(program'[d][i], x)
        => x \in seen'[d]
  BY DEF ShownOK
<1> QED
  BY <1>1, <1>2, <1>3, <1>4 DEF ShownOK

(* What is there stays there: rows are never deleted.                      *)
LEMMA KeysStay ==
  ASSUME rows \subseteq rows'
  PROVE  \A r : KeysHeld(r) => KeysHeld(r)'
BY DEF KeysHeld

(* The steps that read and store nothing.                                  *)
LEMMA AuthoringCalls ==
  ASSUME AuthoringInv, NEW c \in Calls,
         (\E p \in Programs[c] : TxCall(c, p)) \/ TxDiscard(c)
  PROVE  AuthoringInv'
<1>1. PICK p \in Programs[c] \cup {<<>>}, what \in {"open", "new"} :
        /\ outcome[c] = "new" \/ TxSpent(c)
        /\ program' = [program EXCEPT ![c] = p]
        /\ step' = [step EXCEPT ![c] = 0]
        /\ seen' = [seen EXCEPT ![c] = {}]
        /\ outcome' = [outcome EXCEPT ![c] = what]
        /\ UNCHANGED <<made, rows>>
  BY DEF TxCall, TxDiscard
<1>2. CatalogTypeOK'
  <2>1. Len(p) \in Nat
    BY StatementsAssumption
  <2> QED
    BY <1>1, <2>1 DEF AuthoringInv, CatalogTypeOK
<1>3. outcome[c] # "open" /\ \A r \in rows : r.by # c
  BY <1>1 DEF TxSpent, AuthoringInv, StoredOK
<1>4. StoredOK'
  <2>1. RowsUpTo(c, p, 0) = {}
    BY DEF RowsUpTo
  <2>2. \A d \in Calls :
          made'[d] = IF outcome'[d] = "open" THEN RowsUpTo(d, program'[d], step'[d]) ELSE {}
    BY <1>1, <1>3, <2>1 DEF AuthoringInv, CatalogTypeOK, StoredOK
  <2>3. \A r \in rows' : /\ r.by \in Calls /\ outcome'[r.by] \notin {"new", "open"}
                         /\ r \in RowsMade(r.by, program'[r.by])
    BY <1>1, <1>3 DEF AuthoringInv, CatalogTypeOK, StoredOK
  <2>4. \A d \in Calls : \A r \in made'[d] : KeysHeld(r)'
    BY <1>1, KeysStay DEF AuthoringInv, StoredOK
  <2> QED
    BY <2>2, <2>3, <2>4 DEF StoredOK
<1>5. ReadOK'
  <2>1. ShownOK(c)'
    BY <1>1 DEF AuthoringInv, CatalogTypeOK, ShownOK
  <2>2. \A d \in Calls \ {c} : ShownOK(d) => ShownOK(d)'
    BY <1>1, ShownKept DEF AuthoringInv, CatalogTypeOK
  <2> QED
    BY <1>1, <2>1, <2>2 DEF AuthoringInv, CatalogTypeOK, ReadOK
<1>6. OwnersExist'
  BY <1>1 DEF AuthoringInv, OwnersExist
<1> QED
  BY <1>2, <1>4, <1>5, <1>6 DEF AuthoringInv

LEMMA AuthoringAborts ==
  ASSUME AuthoringInv,
         UNCHANGED <<program, step, seen, rows>>, DOMAIN outcome' = Calls, DOMAIN made' = Calls,
         \A c \in Calls : \/ outcome'[c] = outcome[c] /\ made'[c] = made[c]
                          \/ /\ outcome[c] = "open" /\ made'[c] = {}
                             /\ outcome'[c] \in {"problem", "error", "gone"}
  PROVE  AuthoringInv'
<1>1. CatalogTypeOK'
  BY DEF AuthoringInv, CatalogTypeOK
<1>2. StoredOK'
  <2>1. \A d \in Calls : \A r \in made'[d] : KeysHeld(r)'
    BY KeysStay DEF AuthoringInv, StoredOK
  <2> QED
    BY <2>1 DEF AuthoringInv, StoredOK
<1>3. ReadOK'
  <2>1. \A d \in Calls : ShownOK(d) => ShownOK(d)'
    BY ShownKept
  <2> QED
    BY <2>1 DEF AuthoringInv, ReadOK
<1>4. OwnersExist'
  BY DEF AuthoringInv, OwnersExist
<1> QED
  BY <1>1, <1>2, <1>3, <1>4 DEF AuthoringInv

(* An INSERT is its transaction's until the COMMIT.                        *)
LEMMA AuthoringInserts ==
  ASSUME AuthoringInv, NEW c \in Calls, TxInsert(c)
  PROVE  AuthoringInv'
<1> DEFINE p == program[c]  n == step[c] + 1
<1>1. /\ outcome[c] = "open" /\ step[c] < Len(p) /\ p[n].op = "insert"
      /\ made' = [made EXCEPT ![c] = @ \cup {RowMade(c, p, n)}]
      /\ step' = [step EXCEPT ![c] = @ + 1]
      /\ KeysHeld(RowMade(c, p, n))
      /\ UNCHANGED <<program, seen, rows, outcome>>
  BY DEF TxInsert, TxRunning
<1>2. Len(p) \in Nat /\ step[c] \in Nat /\ p \in Programs[c]
  BY <1>1, InItsProgram DEF AuthoringInv
<1>3. CatalogTypeOK'
  BY <1>1, <1>2 DEF AuthoringInv, CatalogTypeOK
<1>4. StoredOK'
  <2>1. RowsUpTo(c, p, n) =
          RowsUpTo(c, p, step[c]) \cup {RowMade(c, p, n)}
    BY <1>1, <1>2, OneMore
  <2>2. \A d \in Calls : \A r \in made'[d] : KeysHeld(r)'
    <3>1. \A d \in Calls : \A r \in made'[d] : KeysHeld(r)
      BY <1>1 DEF AuthoringInv, CatalogTypeOK, StoredOK
    <3> QED
      BY <1>1, <3>1, KeysStay
  <2> QED
    BY <1>1, <2>1, <2>2 DEF AuthoringInv, CatalogTypeOK, StoredOK
<1>5. ReadOK'
  <2>1. \A d \in Calls \ {c} : ShownOK(d) => ShownOK(d)'
    BY <1>1, ShownKept DEF AuthoringInv, CatalogTypeOK
  <2>2. ShownOK(c)
    BY <1>1 DEF AuthoringInv, ReadOK
  <2>3. \A i \in 1..n : i \in 1..step[c] \/ i = n
    BY <1>2
  <2>4. ~ Picks(p[n]) /\ p[n].op # "one"
    BY <1>1 DEF Picks
  <2>5. \A i \in 1..step[c] : i \in 1..n
    BY <1>2
  <2>6. step'[c] = n
    BY <1>1 DEF AuthoringInv, CatalogTypeOK
  <2> HIDE DEF n
  <2>7. ShownOK(c)'
    BY <1>1, <2>2, <2>3, <2>4, <2>5, <2>6 DEF ShownOK
  <2> QED
    BY <1>1, <2>1, <2>7 DEF AuthoringInv, CatalogTypeOK, ReadOK
<1>6. OwnersExist'
  BY <1>1 DEF AuthoringInv, OwnersExist
<1> QED
  BY <1>3, <1>4, <1>5, <1>6 DEF AuthoringInv

(* A SELECT runs before the call's INSERTs, and shows committed rows; a    *)
(* whole that it shows has its parts still to be read.                     *)
LEMMA AuthoringSelects ==
  ASSUME AuthoringInv, NEW c \in Calls, TxSelect(c)
  PROVE  AuthoringInv'
<1> DEFINE p == program[c]  n == step[c] + 1  found == TxFound(c)
<1>1. /\ outcome[c] = "open" /\ step[c] < Len(p) /\ p[n].op \in {"one", "none", "list"}
      /\ seen' = [seen EXCEPT ![c] = @ \cup found]
      /\ UNCHANGED <<program, rows>>
  BY DEF TxSelect, TxRunning
<1>2. /\ Len(p) \in Nat /\ step[c] \in Nat /\ p \in Programs[c] /\ ProgramOK(c, p)
      /\ n \in 1..Len(p) /\ n \in Nat
  BY <1>1, InItsProgram DEF AuthoringInv
<1>3. made[c] = {}
  <2>1. made[c] = RowsUpTo(c, p, step[c])
    BY <1>1 DEF AuthoringInv, StoredOK
  <2>2. \A j \in 1..step[c] : j \in 1..Len(p) /\ j < n
    BY <1>1, <1>2
  <2>3. \A j \in 1..step[c] : p[j].op # "insert"
    BY <1>1, <1>2, <2>2 DEF ProgramOK, Inserts
  <2> QED
    BY <2>1, <2>3 DEF RowsUpTo
<1>4. \A r \in found : r \in rows /\ r.tenant = TenantOf[c] /\ Matches(p[n], r)
  BY <1>3 DEF TxFound
<1>5. \A d \in Calls \ {c} : seen'[d] = seen[d]
  BY <1>1 DEF AuthoringInv, CatalogTypeOK
<1>6. OwnersExist'
  BY <1>1 DEF AuthoringInv, OwnersExist
<1>7. CASE Refuses(p[n], found)
  <2>1. /\ outcome' = [outcome EXCEPT ![c] = "problem"] /\ made' = [made EXCEPT ![c] = {}]
        /\ UNCHANGED step
    BY <1>7 DEF TxSelect, TxEnds
  <2>2. CatalogTypeOK'
    BY <1>1, <2>1 DEF AuthoringInv, CatalogTypeOK
  <2>3. StoredOK'
    <3>1. \A d \in Calls : \A r \in made'[d] : KeysHeld(r)'
      BY <1>1, <2>1, KeysStay DEF AuthoringInv, CatalogTypeOK, StoredOK
    <3> QED
      BY <1>1, <2>1, <3>1 DEF AuthoringInv, CatalogTypeOK, StoredOK
  <2>4. ReadOK'
    <3>1. \A d \in Calls \ {c} : ShownOK(d) => ShownOK(d)'
      BY <1>1, <1>5, <2>1, ShownKept
    <3> QED
      BY <1>1, <2>1, <3>1 DEF AuthoringInv, CatalogTypeOK, ReadOK
  <2> QED
    BY <1>6, <2>2, <2>3, <2>4 DEF AuthoringInv
<1>8. CASE ~ Refuses(p[n], found)
  <2>1. step' = [step EXCEPT ![c] = @ + 1] /\ UNCHANGED <<made, outcome>>
    BY <1>8 DEF TxSelect
  <2>2. CatalogTypeOK'
    BY <1>1, <1>2, <2>1 DEF AuthoringInv, CatalogTypeOK
  <2>3. StoredOK'
    <3>1. RowsUpTo(c, p, n) = RowsUpTo(c, p, step[c])
      BY <1>1, <1>2, OneMore
    <3>2. \A d \in Calls : \A r \in made'[d] : KeysHeld(r)'
      BY <1>1, <2>1, KeysStay DEF AuthoringInv, StoredOK
    <3> QED
      BY <1>1, <2>1, <3>1, <3>2 DEF AuthoringInv, CatalogTypeOK, StoredOK
  <2>4. ShownOK(c)'
    <3>1. ShownOK(c) /\ step'[c] = n /\ seen'[c] = seen[c] \cup found
      BY <1>1, <2>1 DEF AuthoringInv, CatalogTypeOK, ReadOK
    <3>2. \A i \in 1..n : i \in 1..step[c] \/ i = n
      BY <1>2
    <3>3. n \in 1..n /\ \A i \in 1..step[c] : i \in 1..n /\ i \in 1..Len(p) /\ i < n
      BY <1>1, <1>2
    <3> HIDE DEF n, found
    <3>4. seen'[c] \subseteq rows'
      BY <1>1, <1>4, <3>1 DEF ShownOK
    <3>5. \A r \in seen'[c] :
            /\ r.tenant = TenantOf[c]
            /\ \E i \in 1..n : Picks(p[i]) /\ p[i].table = r.table
      <4>1. \A r \in found : Picks(p[n]) /\ p[n].table = r.table
        BY <1>1, <1>4, <1>8 DEF Refuses, Picks, Matches
      <4> QED
        BY <1>4, <3>1, <3>3, <4>1 DEF ShownOK
    <3>6. \A i \in 1..n : p[i].op = "one" =>
            \E q \in rows' : /\ q.tenant = TenantOf[c] /\ q.by = p[i].of
                             /\ q.table = p[i].table
      <4>1. p[n].op = "one" =>
              \E q \in rows : /\ q.tenant = TenantOf[c] /\ q.by = p[n].of
                              /\ q.table = p[n].table
        BY <1>4, <1>8 DEF Refuses, Matches
      <4> QED
        BY <1>1, <3>1, <3>2, <4>1 DEF ShownOK
    <3>7. ASSUME NEW r \in seen'[c], NEW x \in rows, NEW i \in 1..n,
                 x.by = r.by, x.of = x.by, r.of # r.by,
                 Picks(p[i]), Matches(p[i], x)
          PROVE  x \in seen'[c]
      <4>1. r \in rows /\ r.tenant = TenantOf[c]
        BY <1>1, <3>4, <3>5
      <4>2. x.tenant = TenantOf[c] /\ PartOf(x.table, r.table)
        BY <3>7, <4>1, MadeTogether
      <4>3. CASE i = n
        BY <3>1, <3>7, <4>2, <4>3 DEF TxFound, found, n
      <4>4. CASE i \in 1..step[c] /\ r \in seen[c]
        BY <3>1, <3>7, <4>4 DEF ShownOK
      <4>5. CASE i \in 1..step[c] /\ r \in found
        <5>1. Picks(p[n]) /\ p[n].table = r.table /\ p[i].table = x.table
          BY <1>1, <1>4, <1>8, <3>7, <4>5 DEF Refuses, Picks, Matches
        <5>2. n < i
          BY <1>2, <3>3, <4>2, <4>5, <5>1 DEF ProgramOK
        <5> QED
          BY <1>2, <3>3, <4>5, <5>2
      <4> QED
        BY <3>1, <3>2, <3>7, <4>3, <4>4, <4>5
    <3> QED
      BY <1>1, <3>1, <3>4, <3>5, <3>6, <3>7, Zenon DEF ShownOK
  <2>5. ReadOK'
    <3>1. \A d \in Calls \ {c} : ShownOK(d) => ShownOK(d)'
      BY <1>1, <1>5, <2>1, ShownKept DEF AuthoringInv, CatalogTypeOK
    <3> QED
      BY <1>1, <2>1, <2>4, <3>1 DEF AuthoringInv, CatalogTypeOK, ReadOK
  <2> QED
    BY <1>6, <2>2, <2>3, <2>5 DEF AuthoringInv
<1> QED
  BY <1>7, <1>8

(* A COMMIT stores all rows of a call, and no row of the call was there    *)
(* before: what others have been shown stays whole.                        *)
LEMMA AuthoringCommits ==
  ASSUME AuthoringInv, NEW c \in Calls, TxCommit(c)
  PROVE  AuthoringInv'
<1> DEFINE p == program[c]
<1>1. /\ outcome[c] = "open" /\ step[c] = Len(p) /\ rows' = rows \cup made[c]
      /\ made' = [made EXCEPT ![c] = {}]
      /\ UNCHANGED <<program, step, seen>>
  BY DEF TxCommit, TxEnds
<1>2. PICK what \in {"ok", "error"} : outcome' = [outcome EXCEPT ![c] = what]
  BY DEF TxCommit, TxEnds
<1>3. Len(p) \in Nat /\ Len(p) \in 0 .. Len(p) /\ ProgramOK(c, p)
  BY InItsProgram DEF AuthoringInv
<1>4. made[c] = RowsUpTo(c, p, Len(p)) /\ made[c] = RowsMade(c, p)
  BY <1>1 DEF AuthoringInv, StoredOK, RowsMade
<1>5. /\ \A r \in made[c] : /\ r.by = c /\ r.tenant = TenantOf[c]
                             /\ \E i \in Inserts(p) : /\ r.of = p[i].of
                                                    /\ r.table = p[i].table
                                                    /\ r.refs = p[i].refs
      /\ \A r \in rows : r.by # c
  <2>1. \A r \in rows : r.by # c
    BY <1>1 DEF AuthoringInv, StoredOK
  <2>2. ASSUME NEW r \in made[c]
        PROVE  /\ r.by = c /\ r.tenant = TenantOf[c]
               /\ \E i \in Inserts(p) : /\ r.of = p[i].of
                                      /\ r.table = p[i].table /\ r.refs = p[i].refs
    <3> DEFINE n == Len(p)
    <3>1. Len(p) \in Nat /\ n \in 0 .. Len(p) /\ r \in RowsUpTo(c, p, n)
      BY <1>3, <1>4
    <3> HIDE DEF p, n
    <3> QED
      BY <3>1 DEF RowsUpTo, RowMade, Inserts
  <2> QED
    BY <2>1, <2>2
<1>6. CatalogTypeOK'
  BY <1>1, <1>2 DEF AuthoringInv, CatalogTypeOK
<1>7. StoredOK'
  <2>1. \A d \in Calls :
          made'[d] = IF outcome'[d] = "open" THEN RowsUpTo(d, program'[d], step'[d]) ELSE {}
    BY <1>1, <1>2 DEF AuthoringInv, CatalogTypeOK, StoredOK
  <2>2. \A r \in rows' : /\ r.by \in Calls /\ outcome'[r.by] \notin {"new", "open"}
                         /\ r \in RowsMade(r.by, program'[r.by])
    BY <1>1, <1>2, <1>4, <1>5 DEF AuthoringInv, CatalogTypeOK, StoredOK
  <2>3. \A d \in Calls : \A r \in made'[d] : KeysHeld(r)'
    BY <1>1, KeysStay DEF AuthoringInv, CatalogTypeOK, StoredOK
  <2> QED
    BY <2>1, <2>2, <2>3 DEF StoredOK
<1>8. ReadOK'
  <2>1. \A x \in rows' \ rows, r \in rows : x.by # r.by
    BY <1>1, <1>5
  <2>2. \A d \in Calls : ShownOK(d) => ShownOK(d)'
    BY <1>1, <2>1, ShownKept
  <2> QED
    BY <1>1, <1>2, <2>2 DEF AuthoringInv, CatalogTypeOK, ReadOK
<1>9. \A r \in rows' : r.of # NULL =>
        \E q \in rows' : q.by = r.of /\ q.of # q.by /\ q.tenant = r.tenant
  <2> SUFFICES ASSUME NEW r \in rows', r.of # NULL
               PROVE  \E q \in rows' : q.by = r.of /\ q.of # q.by /\ q.tenant = r.tenant
    OBVIOUS
  <2>1. CASE r \in rows
    BY <1>1, <2>1 DEF AuthoringInv, OwnersExist
  <2>2. CASE r \in made[c]
    <3>1. PICK i \in Inserts(p) : r.of = p[i].of
      BY <1>5, <2>2
    <3>2. CASE r.of = c
      <4>1. PICK j \in Inserts(p) : p[j].of # c
        BY <1>3, <3>1, <3>2, StatementsAssumption DEF ProgramOK
      <4>2. /\ RowMade(c, p, j) \in made[c]
            /\ RowMade(c, p, j).by = c /\ RowMade(c, p, j).of = p[j].of
            /\ RowMade(c, p, j).tenant = TenantOf[c]
        BY <1>4, <4>1 DEF RowsUpTo, RowMade, Inserts
      <4> QED
        BY <1>1, <1>5, <2>2, <3>2, <4>1, <4>2
    <3>3. CASE r.of # c
      <4>1. PICK j \in 1..Len(p) : p[j].op = "one" /\ p[j].of = r.of
        BY <1>3, <3>1, <3>3 DEF ProgramOK
      <4>2. PICK q \in rows : q.tenant = TenantOf[c] /\ q.by = r.of
        BY <1>1, <4>1 DEF AuthoringInv, ReadOK, ShownOK
      <4>3. CASE q.of # q.by
        BY <1>1, <1>5, <2>2, <4>2, <4>3
(* The row that was found is a part: then its whole is there.              *)
      <4>4. CASE q.of = q.by
        BY <1>1, <1>5, <2>2, <4>2, <4>4 DEF AuthoringInv, OwnersExist
      <4> QED
        BY <4>3, <4>4
    <3> QED
      BY <3>2, <3>3
  <2> QED
    BY <1>1, <2>1, <2>2
<1>10. \A r \in rows' : \A ref \in r.refs :
         \E q \in rows' : /\ ref = <<q.table, q.by>>
                         /\ (q.tenant = r.tenant \/ r.table = "course")
  <2> SUFFICES ASSUME NEW r \in rows', NEW ref \in r.refs
               PROVE  \E q \in rows' : /\ ref = <<q.table, q.by>>
                                       /\ (q.tenant = r.tenant \/ r.table = "course")
    OBVIOUS
  <2>1. CASE r \in rows
    BY <1>1, <2>1 DEF AuthoringInv, OwnersExist
  <2>2. CASE r \in made[c] /\ r.table = "course"
    <3>1. KeysHeld(r)
      BY <2>2 DEF AuthoringInv, StoredOK
    <3> QED
      BY <1>1, <2>2, <3>1 DEF KeysHeld
  <2>3. CASE r \in made[c] /\ r.table # "course"
    <3>1. PICK i \in Inserts(p) : r.table = p[i].table /\ r.refs = p[i].refs
      BY <1>5, <2>3
    <3>2. PICK j \in 1..Len(p) : p[j].op = "one" /\ ref = <<p[j].table, p[j].of>>
      BY <1>3, <2>3, <3>1 DEF ProgramOK
    <3>3. PICK q \in rows : /\ q.tenant = TenantOf[c] /\ q.by = p[j].of
                           /\ q.table = p[j].table
      BY <1>1, <3>2 DEF AuthoringInv, ReadOK, ShownOK
    <3> QED
      BY <1>1, <1>5, <2>3, <3>2, <3>3
  <2> QED
    BY <1>1, <2>1, <2>2, <2>3
<1>11. OwnersExist'
  BY <1>9, <1>10 DEF OwnersExist
<1> QED
  BY <1>6, <1>7, <1>8, <1>11 DEF AuthoringInv

LEMMA AuthoringStep ==
  ASSUME AuthoringInv, [TxNext]_txVars
  PROVE  AuthoringInv'
<1>1. ASSUME NEW c \in Calls, TxAbort(c)
      PROVE  AuthoringInv'
  <2>1. PICK what \in {"problem", "error"} : TxEnds(c, what)
    BY <1>1 DEF TxAbort
  <2>2. \A d \in Calls : \/ outcome'[d] = outcome[d] /\ made'[d] = made[d]
                         \/ /\ outcome[d] = "open" /\ made'[d] = {}
                            /\ outcome'[d] \in {"problem", "error", "gone"}
    BY <1>1, <2>1 DEF TxAbort, TxEnds, AuthoringInv, CatalogTypeOK
  <2>3. DOMAIN outcome' = Calls /\ DOMAIN made' = Calls /\ UNCHANGED <<program, step, seen, rows>>
    BY <1>1, <2>1 DEF TxAbort, TxEnds, AuthoringInv, CatalogTypeOK
  <2> QED
    BY <2>2, <2>3, AuthoringAborts
<1>2. CASE TxCrash
  <2>1. \A d \in Calls : \/ outcome'[d] = outcome[d] /\ made'[d] = made[d]
                         \/ /\ outcome[d] = "open" /\ made'[d] = {}
                            /\ outcome'[d] \in {"problem", "error", "gone"}
    BY <1>2 DEF TxCrash
  <2>2. DOMAIN outcome' = Calls /\ DOMAIN made' = Calls /\ UNCHANGED <<program, step, seen, rows>>
    BY <1>2 DEF TxCrash
  <2> QED
    BY <2>1, <2>2, AuthoringAborts
<1>3. CASE UNCHANGED txVars
  BY <1>3, AuthoringAborts DEF txVars, AuthoringInv, CatalogTypeOK
<1> QED
  BY <1>1, <1>2, <1>3, AuthoringCalls, AuthoringSelects, AuthoringInserts, AuthoringCommits
     DEF TxNext

LEMMA AuthoringAlways == TxSpec => []AuthoringInv
<1>1. TxInit => AuthoringInv
  <2> SUFFICES ASSUME TxInit PROVE AuthoringInv
    OBVIOUS
  <2>1. CatalogTypeOK
    BY DEF TxInit, CatalogTypeOK
  <2>2. StoredOK /\ ReadOK /\ OwnersExist
    BY DEF TxInit, StoredOK, ReadOK, OwnersExist
  <2> QED
    BY <2>1, <2>2 DEF AuthoringInv
<1>2. AuthoringInv /\ [TxNext]_txVars => AuthoringInv'
  BY AuthoringStep
<1> QED
  BY <1>1, <1>2, PTL DEF TxSpec

(* Nothing is stored that belongs to, or refers to, what is not there:     *)
(* whoever else writes, fails or dies meanwhile.  All of it is of the      *)
(* row's tenant but a course's scheme and rank, which no handler looks up. *)
THEOREM OwnersAreThere == TxSpec => []OwnersExist
<1>1. AuthoringInv => OwnersExist
  BY DEF AuthoringInv
<1> QED
  BY <1>1, AuthoringAlways, PTL

(* An answer shows wholes, though a snapshot of its own underlies each of  *)
(* its statements.                                                         *)
THEOREM WholesAreShown == TxSpec => []ShownWhole
<1>1. AuthoringInv => ShownWhole
  <2> SUFFICES ASSUME AuthoringInv, NEW c \in Calls, outcome[c] = "ok",
                      NEW r \in seen[c], NEW x \in rows,
                      x.by = r.by, x.of = x.by, r.of # r.by,
                      NEW i \in 1..Len(program[c]), Matches(program[c][i], x)
               PROVE  x \in seen[c]
    BY DEF ShownWhole
  <2>1. ShownOK(c) /\ step[c] = Len(program[c]) /\ ProgramOK(c, program[c])
    BY InItsProgram DEF AuthoringInv, ReadOK
  <2>2. PICK j \in 1..Len(program[c]) :
          Picks(program[c][j]) /\ program[c][j].table = r.table
    BY <2>1 DEF ShownOK
  <2>3. PartOf(program[c][i].table, program[c][j].table)
    BY <2>1, <2>2, MadeTogether DEF ShownOK, Matches
  <2>4. Picks(program[c][i])
    BY <2>1, <2>2, <2>3 DEF ProgramOK
  <2> QED
    BY <2>1, <2>4 DEF ShownOK
<1> QED
  BY <1>1, AuthoringAlways, PTL

-----------------------------------------------------------------------------
(* The authoring routes on the pool: handlers, lookups of keys and flushes *)
(* through withTenant(), PgBouncer and the policies.                       *)

(* Requests says nothing of the variable of Transactions: let it be what   *)
(* the refinement mapping says.                                            *)
PoolMade == made = [c \in Calls |-> Made(c)]

(* Under the mapping the promise is that of Transactions.                  *)
LEMMA PromiseIsTransactions ==
  ASSUME PoolMade, PoolMade', Promise!TxNext
  PROVE  TxNext
<1>1. ASSUME NEW c \in Calls, NEW p, Promise!TxCall(c, p)
      PROVE  TxCall(c, p)
  BY <1>1, SameStatements DEF PoolMade, Promise!TxCall, TxCall, Promise!TxSpent, TxSpent
<1>2. ASSUME NEW c \in Calls, Promise!TxDiscard(c)
      PROVE  TxDiscard(c)
  BY <1>2, SameStatements DEF PoolMade, Promise!TxDiscard, TxDiscard, Promise!TxSpent, TxSpent
<1>3. ASSUME NEW c, NEW what, Promise!TxEnds(c, what)
      PROVE  TxEnds(c, what)
  BY <1>3 DEF PoolMade, Promise!TxEnds, TxEnds
<1>4. ASSUME NEW c \in Calls, Promise!TxSelect(c)
      PROVE  TxSelect(c)
  <2>1. TxFound(c) = Promise!TxFound(c)
    BY SameStatements DEF PoolMade, Promise!TxFound, TxFound
  <2> QED
    BY <1>3, <1>4, <2>1, SameStatements
       DEF PoolMade, Promise!TxSelect, TxSelect, Promise!TxRunning, TxRunning
<1>5. ASSUME NEW c \in Calls, Promise!TxInsert(c)
      PROVE  TxInsert(c)
  BY <1>5, SameStatements DEF PoolMade, Promise!TxInsert, TxInsert, Promise!TxRunning, TxRunning
<1>6. ASSUME NEW c \in Calls, Promise!TxCommit(c)
      PROVE  TxCommit(c)
  BY <1>3, <1>6 DEF PoolMade, Promise!TxCommit, TxCommit
<1>7. ASSUME NEW c \in Calls, Promise!TxAbort(c)
      PROVE  TxAbort(c)
  BY <1>3, <1>7 DEF Promise!TxAbort, TxAbort
<1>8. Promise!TxCrash => TxCrash
  BY DEF PoolMade, Promise!TxCrash, TxCrash
<1> QED
  BY <1>1, <1>2, <1>4, <1>5, <1>6, <1>7, <1>8 DEF Promise!TxNext, TxNext

LEMMA PoolRunsTransactions == Spec /\ []PoolMade => TxSpec
<1>1. PoolMade /\ Promise!TxInit => TxInit
  BY DEF PoolMade, Promise!TxInit, TxInit
<1>2. PoolMade /\ PoolMade' /\ [Promise!TxNext]_(Promise!txVars) => [TxNext]_txVars
  BY PromiseIsTransactions DEF PoolMade, Promise!txVars, txVars
<1> QED
  BY <1>1, <1>2, KeepsThePromise, PTL DEF KeepsPromise, Promise!TxSpec, TxSpec

(* What the pool stores refers to what it stores, whatever connections,    *)
(* statements and workers fail.                                            *)
THEOREM OwnersOnThePool == Spec /\ []PoolMade => []OwnersExist
BY PoolRunsTransactions, OwnersAreThere, PTL

(* What a request is shown on the pool is whole.                           *)
THEOREM WholesOnThePool == Spec /\ []PoolMade => []ShownWhole
BY PoolRunsTransactions, WholesAreShown, PTL
=============================================================================
