--------------------------- MODULE FirehoseClient ---------------------------
(***************************************************************************)
(* One call of Client.Stream (pkg/client/client.go) against the firehose   *)
(* of a server backed by PostgresStore: the handler writes each row its    *)
(* Stream call yields to the connection, and the client resumes after an   *)
(* interruption from the time of the last record it delivered.             *)
(***************************************************************************)
EXTENDS PostgresStore, Sequences

CONSTANTS
    Conn,       \* the server's Stream call for the current connection
    MaxDrops    \* bound on interruptions

ASSUME ConnAssumption == Conn \in Stream /\ MaxDrops \in Nat

VARIABLES
    client,     \* where the client call is
    start,      \* its argument
    resume,     \* where the next connection starts
    delivered,  \* causes delivered with recorded time equal to resume ("seen")
    connected,  \* a connection has been established and has ended
    wire,       \* events written by the server, not yet read
    drops,      \* interruptions so far
    got         \* how many times the caller was given each cause (history)

clientVars == <<client, start, resume, delivered, connected, wire, drops, got>>
allVars == <<vars, clientVars>>

ClientInit ==
    /\ Init
    /\ client = "idle"
    /\ start = 0
    /\ resume = 0
    /\ delivered = {}
    /\ connected = FALSE
    /\ wire = <<>>
    /\ drops = 0
    /\ got = [c \in Cause |-> 0]

-----------------------------------------------------------------------------
(***************************************************************************)
(* The server: firehoseHandler ranges over the store's stream and writes   *)
(* and flushes one event per record.                                       *)
(***************************************************************************)
WriteRecord(r) ==
    /\ Yield(Conn, r)
    /\ wire' = Append(wire, r)
    /\ UNCHANGED <<client, start, resume, delivered, connected, drops, got>>

ServerStep ==
    \/ ReadClock(Conn) /\ UNCHANGED clientVars
    \/ Query(Conn) /\ UNCHANGED clientVars
    \/ \E r \in pending[Conn] : SkipSeen(Conn, r) /\ UNCHANGED clientVars
    \/ \E r \in pending[Conn] : WriteRecord(r)
    \/ Advance(Conn) /\ UNCHANGED clientVars
    \/ TickerFires(Conn) /\ UNCHANGED clientVars

\* The store fails: the handler returns after an "error" event, which the
\* client skips; what it wrote before can still be read.
ServerEnds ==
    /\ drops < MaxDrops
    /\ CloseStream(Conn)
    /\ drops' = drops + 1
    /\ UNCHANGED <<client, start, resume, delivered, connected, wire, got>>

-----------------------------------------------------------------------------
(***************************************************************************)
(* The client.                                                             *)
(***************************************************************************)
\* Mutant of CallStream: the argument is not used.
CallStreamFromZero(f) ==
    /\ client = "idle"
    /\ client' = "connecting"
    /\ start' = f
    /\ resume' = 0
    /\ UNCHANGED <<vars, delivered, connected, wire, drops, got>>

CallStream(f) ==
    /\ client = "idle"
    /\ client' = "connecting"
    /\ start' = f
    /\ resume' = f
    /\ UNCHANGED <<vars, delivered, connected, wire, drops, got>>

Connect ==
    /\ client = "connecting"
    /\ OpenStream(Conn, resume)
    /\ client' = "reading"
    /\ UNCHANGED <<start, resume, delivered, connected, wire, drops, got>>

\* Mutant of ConnectFails: failing to connect is always fatal.
ConnectFailsForGood ==
    /\ client = "connecting"
    /\ drops < MaxDrops
    /\ drops' = drops + 1
    /\ client' = "failed"
    /\ UNCHANGED <<vars, start, resume, delivered, connected, wire, got>>

\* Failing to connect is fatal only before a connection was ever established.
ConnectFails ==
    /\ client = "connecting"
    /\ drops < MaxDrops
    /\ drops' = drops + 1
    /\ client' = IF connected THEN "backoff" ELSE "failed"
    /\ UNCHANGED <<vars, start, resume, delivered, connected, wire, got>>

\* Mutant of IsRepeat: what was delivered at resume is delivered again.
IsRepeatNever(r) == FALSE

\* The callback Stream gives streamConn.
IsRepeat(r) == r.at = resume /\ r.cause \in delivered

\* Mutant of Receive: resume just after the last record's time.
ReceiveAfter ==
    /\ client = "reading"
    /\ wire # <<>>
    /\ wire' = Tail(wire)
    /\ LET r == Head(wire) IN
          IF IsRepeat(r)
          THEN UNCHANGED <<resume, delivered, got>>
          ELSE /\ resume' = r.at + 1
               /\ delivered' = {r.cause}
               /\ got' = [got EXCEPT ![r.cause] = @ + 1]
    /\ UNCHANGED <<vars, client, start, connected, drops>>

Receive ==
    /\ client = "reading"
    /\ wire # <<>>
    /\ wire' = Tail(wire)
    /\ LET r == Head(wire) IN
          IF IsRepeat(r)
          THEN UNCHANGED <<resume, delivered, got>>
          ELSE /\ resume' = r.at
               /\ delivered' = {r.cause} \cup (IF r.at = resume THEN delivered ELSE {})
               /\ got' = [got EXCEPT ![r.cause] = @ + 1]
    /\ UNCHANGED <<vars, client, start, connected, drops>>

\* The connection is cut: events not yet read are lost, and the handler's
\* request context ends the server's stream.
Interrupt ==
    /\ client = "reading"
    /\ drops < MaxDrops
    /\ CloseStream(Conn)
    /\ client' = "backoff"
    /\ connected' = TRUE
    /\ wire' = <<>>
    /\ drops' = drops + 1
    /\ UNCHANGED <<start, resume, delivered, got>>

\* The response ended on the server's side.
EndOfStream ==
    /\ client = "reading"
    /\ ~Open(Conn)
    /\ wire = <<>>
    /\ client' = "backoff"
    /\ connected' = TRUE
    /\ UNCHANGED <<vars, start, resume, delivered, wire, drops, got>>

BackoffElapses ==
    /\ client = "backoff"
    /\ client' = "connecting"
    /\ UNCHANGED <<vars, start, resume, delivered, connected, wire, drops, got>>

\* The call has begun and has not returned.
Called == client \notin {"idle", "ended", "failed"}

\* The consumer stops iterating or cancels the context, or an event is corrupt:
\* undecodable or over sse.MaxEventBytes, which ends the call for good.
Stop ==
    /\ Called
    /\ client' = "ended"
    /\ wire' = <<>>
    /\ IF Open(Conn) THEN CloseStream(Conn) ELSE UNCHANGED vars
    /\ UNCHANGED <<start, resume, delivered, connected, drops, got>>

-----------------------------------------------------------------------------
StoreStep ==
    /\ \/ Tick
       \/ \E w \in Writer : WriterNext(w)
    /\ UNCHANGED clientVars

ClientNext ==
    \/ StoreStep
    \/ ServerStep
    \/ ServerEnds
    \/ \E f \in Time : CallStream(f)
    \/ Connect
    \/ ConnectFails
    \/ Receive
    \/ Interrupt
    \/ EndOfStream
    \/ BackoffElapses
    \/ Stop

ClientSpec == ClientInit /\ [][ClientNext]_allVars

\* The server polls, the client reads, backs off and reconnects. Interruptions
\* are possible, never owed, and at most MaxDrops in number.
ClientFairSpec ==
    /\ ClientSpec
    /\ WF_allVars(ServerStep)
    /\ WF_allVars(Connect)
    /\ WF_allVars(Receive)
    /\ WF_allVars(EndOfStream)
    /\ WF_allVars(BackoffElapses)

-----------------------------------------------------------------------------
(***************************************************************************)
(* Properties.                                                             *)
(***************************************************************************)

\* A single call yields each revocation at most once, across reconnections
\* (client.go:221-223).
ClientYieldsOnce == \A c \in Cause : got[c] <= 1

\* A reconnection never starts past a record the caller has not been given:
\* the server will not send it again (client.go:221-223; pkg/store/store.go,
\* 52-56: "consumers resuming from the timestamp of the last record they
\* received do not miss records that share it").
ReconnectMissesNothing ==
    \A r \in rows :
        Open(Conn) /\ client = "reading" /\ start <= r.at /\ r.at < from[Conn]
            => got[r.cause] >= 1

\* Every record at or after the caller's argument is eventually delivered, unless
\* the caller or a corrupt event ends the call or there never was a connection:
\* once there was one, no failure to reconnect ends it (client.go:218-220,
\* 261-271).
EventuallyDelivered ==
    \A c \in Cause :
        (client # "idle" /\ \E r \in rows : r.cause = c /\ r.at >= start)
            ~> \/ got[c] >= 1
               \/ client = "ended"
               \/ client = "failed" /\ ~connected

\* Across its connections a call is one stream of the store: it delivers records
\* at or after its argument only, each once, and only ones that are stored
\* (client.go:217-223; pkg/store/store.go:52-56).
Caller == INSTANCE RevocationFeed WITH
              Stream <- {Conn},
              records <- rows,
              open <- IF Called THEN {Conn} ELSE {},
              from <- [s \in {Conn} |-> IF Called THEN start ELSE 0],
              fed <- [s \in {Conn} |-> IF Called THEN got ELSE [c \in Cause |-> 0]]
CallIsOneStream == Caller!FeedSpec
=============================================================================
