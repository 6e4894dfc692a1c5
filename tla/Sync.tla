-------------------------------- MODULE Sync --------------------------------
(***************************************************************************)
(* The message loop of SyncConnection (src/tsclientlib/src/sync.rs).       *)
(* Clients hold a SyncConnectionHandle; each call creates a oneshot        *)
(* channel, sends a SyncConMessage over the bounded mpsc channel, and      *)
(* awaits the answer.  poll_next first handles every queued message on     *)
(* the connection, storing the oneshot senders in the waiter tables, then  *)
(* polls the connection's stream, whose items answer the waiters.          *)
(*                                                                         *)
(* A client is one task with at most one call in flight.  A oneshot        *)
(* sender is represented by the client waiting on it; sending an answer    *)
(* sets the client's result, and dropping a sender answers "canceled".     *)
(* The waiter tables connects / disconnects are Vecs drained all at once,  *)
(* so they are sets here.  The connection (Connection::get_state,          *)
(* send_command, disconnect, download_file, upload_file and its stream)    *)
(* is not part of this source tree; it is modelled from the stream items   *)
(* the specification lists, with every call free to fail.                  *)
(***************************************************************************)
EXTENDS Naturals, Sequences, FiniteSets, Functions, TLC

CONSTANTS
  Clients,        \* tasks that hold a SyncConnectionHandle
  Kinds,          \* the SyncConMessage variants the clients use
  Handles,        \* MessageHandle / FileTransferHandle values
  ChanCap,        \* capacity of the mpsc channel (mpsc::channel(1))
  MaxCalls,       \* bound: calls per client
  MaxReconnects   \* bound: DisconnectedTemporarily items

\* SyncConMessage
AllKinds == {"RunFn", "SendCommand", "WaitConnected", "Disconnect",
             "DownloadFile", "UploadFile"}

ASSUME Kinds \subseteq AllKinds /\ ChanCap \in Nat \ {0}
ASSUME MaxCalls \in Nat /\ MaxReconnects \in Nat

\* Which table a request with a handle is stored in, and which result
\* items answer it.
TableOf == [SendCommand |-> "cmd", DownloadFile |-> "down", UploadFile |-> "up"]

ConStates == {"connecting", "connected", "disconnecting", "gone"}
Results == {"none", "ok", "err", "canceled", "gone"}

VARIABLES
  chan,         \* the mpsc channel: the clients whose message is queued
  commands,     \* handle -> client (SyncConnection.commands)
  downloads,    \* handle -> client
  uploads,      \* handle -> client
  connects,     \* clients waiting for the connection to be established
  disconnects,  \* clients waiting for the end of the connection
  con,          \* state of the connection
  pending,      \* handle -> "cmd" | "down" | "up": results the connection owes
  used,         \* handles the connection has handed out
  reconnects,   \* DisconnectedTemporarily items so far
  alive,        \* the SyncConnection exists (it has not been dropped)
  ended,        \* poll_next returned None
  st,           \* client -> "idle" | "sending" | "waiting" | "answered"
  req,          \* client -> kind of its current call
  res,          \* client -> what its call returned
  accepted,     \* clients whose message the connection accepted
  calls         \* client -> number of calls made

tables == <<commands, downloads, uploads, pending, used>>
vars == <<chan, tables, connects, disconnects, con, reconnects, alive, ended,
          st, req, res, accepted, calls>>

TypeOK ==
  /\ chan \in Seq(Clients) /\ Len(chan) <= ChanCap
  /\ \A f \in {commands, downloads, uploads} : DOMAIN f \subseteq Handles /\ Range(f) \subseteq Clients
  /\ connects \subseteq Clients /\ disconnects \subseteq Clients
  /\ con \in ConStates
  /\ DOMAIN pending \subseteq used /\ used \subseteq Handles
  /\ Range(pending) \subseteq {"cmd", "down", "up"}
  /\ reconnects \in 0..MaxReconnects
  /\ alive \in BOOLEAN /\ ended \in BOOLEAN
  /\ st \in [Clients -> {"idle", "sending", "waiting", "answered"}]
  /\ req \in [Clients -> Kinds \cup {"none"}]
  /\ res \in [Clients -> Results]
  /\ accepted \subseteq Clients
  /\ calls \in [Clients -> 0..MaxCalls]

-----------------------------------------------------------------------------
(* Helpers                                                                  *)

\* Answer the calls of the clients in S with r (oneshot::Sender::send, or
\* the drop of the sender when r = "canceled").
Answer(S, r) ==
  /\ st' = [c \in Clients |-> IF c \in S THEN "answered" ELSE st[c]]
  /\ res' = [c \in Clients |-> IF c \in S THEN r ELSE res[c]]

\* HashMap::remove
Remove(f, h) == Restrict(f, DOMAIN f \ {h})

\* con.get_state().is_ok(): the connection has its server state.
StateOk == con \in {"connected", "disconnecting"}

-----------------------------------------------------------------------------
(* The handle side                                                          *)

Init ==
  /\ chan = <<>>
  /\ commands = [h \in {} |-> CHOOSE c \in Clients : TRUE]
  /\ downloads = commands /\ uploads = commands
  /\ connects = {} /\ disconnects = {}
  /\ con = "connecting"
  /\ pending = [h \in {} |-> "cmd"] /\ used = {}
  /\ reconnects = 0
  /\ alive = TRUE /\ ended = FALSE
  /\ st = [c \in Clients |-> "idle"]
  /\ req = [c \in Clients |-> "none"]
  /\ res = [c \in Clients |-> "none"]
  /\ accepted = {}
  /\ calls = [c \in Clients |-> 0]

\* A handle method starts: oneshot::channel() and the message to send.
Call(c, k) ==
  /\ st[c] \in {"idle", "answered"}
  /\ calls[c] < MaxCalls
  /\ st' = [st EXCEPT ![c] = "sending"]
  /\ req' = [req EXCEPT ![c] = k]
  /\ res' = [res EXCEPT ![c] = "none"]
  /\ calls' = [calls EXCEPT ![c] = @ + 1]
  /\ accepted' = accepted \ {c}
  /\ UNCHANGED <<chan, tables, connects, disconnects, con, reconnects, alive, ended>>

\* (mutant) a channel that admits one message more than its capacity.
EnqueueNoBound(c) ==
  /\ st[c] = "sending" /\ alive
  /\ Len(chan) <= ChanCap
  /\ chan' = Append(chan, c)
  /\ st' = [st EXCEPT ![c] = "waiting"]
  /\ UNCHANGED <<tables, connects, disconnects, con, reconnects, alive, ended,
                 req, res, accepted, calls>>

\* self.send.send(msg).await completes once the channel has room.
Enqueue(c) ==
  /\ st[c] = "sending" /\ alive
  /\ Len(chan) < ChanCap
  /\ chan' = Append(chan, c)
  /\ st' = [st EXCEPT ![c] = "waiting"]
  /\ UNCHANGED <<tables, connects, disconnects, con, reconnects, alive, ended,
                 req, res, accepted, calls>>

\* The receiver is gone: "Connection has gone".
SendFails(c) ==
  /\ st[c] = "sending" /\ ~alive
  /\ Answer({c}, "gone")
  /\ UNCHANGED <<chan, tables, connects, disconnects, con, reconnects, alive,
                 ended, req, accepted, calls>>

-----------------------------------------------------------------------------
(* The first loop of poll_next: one queued message                          *)

\* RunFn: f(&mut *self) runs on the connection and its result is sent.
\* The function may itself start a command or a file transfer on the
\* connection, whose result no table tracks.
RunFn(c) ==
  /\ Answer({c}, "ok")
  /\ \/ UNCHANGED <<pending, used>>
     \/ \E h \in Handles \ used, t \in {"cmd", "down", "up"} :
          /\ used' = used \cup {h}
          /\ pending' = pending @@ (h :> t)
  /\ UNCHANGED <<commands, downloads, uploads, connects, disconnects, con, accepted>>

\* SendCommand, DownloadFile, UploadFile: the connection returns a fresh
\* handle, under which the sender is stored, or an error, which is sent.
Register(c, k) ==
  /\ \/ \E h \in Handles \ used :
          /\ used' = used \cup {h}
          /\ pending' = pending @@ (h :> TableOf[k])
          /\ commands' = IF k = "SendCommand" THEN commands @@ (h :> c) ELSE commands
          /\ downloads' = IF k = "DownloadFile" THEN downloads @@ (h :> c) ELSE downloads
          /\ uploads' = IF k = "UploadFile" THEN uploads @@ (h :> c) ELSE uploads
          /\ accepted' = accepted \cup {c}
          /\ UNCHANGED <<st, res>>
     \/ /\ Answer({c}, "err")
        /\ UNCHANGED <<tables, accepted>>
  /\ UNCHANGED <<connects, disconnects, con>>

\* WaitConnected: answered at once if the connection has its state, else
\* stored in connects.
WaitConnected(c) ==
  /\ IF StateOk
     THEN Answer({c}, "ok") /\ UNCHANGED connects
     ELSE connects' = connects \cup {c} /\ UNCHANGED <<st, res>>
  /\ UNCHANGED <<tables, disconnects, con, accepted>>

\* Disconnect: con.disconnect(arg) starts the disconnect and the sender
\* is stored in disconnects, or it fails and the error is sent.
Disconnect(c) ==
  /\ \/ /\ con' = "disconnecting"
        /\ disconnects' = disconnects \cup {c}
        /\ accepted' = accepted \cup {c}
        /\ UNCHANGED <<st, res>>
     \/ /\ Answer({c}, "err")
        /\ UNCHANGED <<con, disconnects, accepted>>
  /\ UNCHANGED <<tables, connects>>

HandleMessage ==
  /\ alive /\ ~ended /\ chan # <<>>
  /\ LET c == Head(chan) IN
     /\ chan' = Tail(chan)
     /\ CASE req[c] = "RunFn" -> RunFn(c)
          [] req[c] = "WaitConnected" -> WaitConnected(c)
          [] req[c] = "Disconnect" -> Disconnect(c)
          [] OTHER -> Register(c, req[c])
  /\ UNCHANGED <<reconnects, alive, ended, req, calls>>

-----------------------------------------------------------------------------
(* The second loop of poll_next: one item of the connection's stream        *)

\* (mutant) ConEvents that leaves connects alone.
ConEventsNoDrain ==
  /\ con = "connecting"
  /\ con' = "connected"
  /\ UNCHANGED <<st, res, connects, disconnects, tables, reconnects, accepted, ended>>

\* ConEvents: the connection is established (its first events carry the
\* server); every waiter in connects is answered.
ConEvents ==
  /\ con = "connecting"
  /\ con' = "connected"
  /\ Answer(connects, "ok")
  /\ connects' = {}
  /\ UNCHANGED <<disconnects, tables, reconnects, accepted, ended>>

\* DisconnectedTemporarily: the connection is rebuilt.
DisconnectedTemporarily ==
  /\ con = "connected" /\ reconnects < MaxReconnects
  /\ con' = "connecting"
  /\ reconnects' = reconnects + 1
  /\ UNCHANGED <<st, res, connects, disconnects, tables, accepted, ended>>

\* The result for handle h of the given table: the waiter, if one is
\* stored, is removed and answered with r; an untracked result is logged.
Deliver(h, table, tbl, r) ==
  /\ h \in DOMAIN pending /\ pending[h] = table
  /\ pending' = Remove(pending, h)
  /\ IF h \in DOMAIN tbl
     THEN Answer({tbl[h]}, r)
     ELSE UNCHANGED <<st, res>>
  /\ UNCHANGED <<con, reconnects, connects, disconnects, used, accepted>>

MessageResult(h) ==
  /\ \E r \in {"ok", "err"} : Deliver(h, "cmd", commands, r)
  /\ commands' = Remove(commands, h)
  /\ UNCHANGED <<downloads, uploads>>

FileDownload(h) ==
  /\ Deliver(h, "down", downloads, "ok")
  /\ downloads' = Remove(downloads, h)
  /\ UNCHANGED <<commands, uploads>>

FileUpload(h) ==
  /\ Deliver(h, "up", uploads, "ok")
  /\ uploads' = Remove(uploads, h)
  /\ UNCHANGED <<commands, downloads>>

\* FileTransferFailed looks in downloads, then in uploads.
FileTransferFailed(h) ==
  /\ h \in DOMAIN pending /\ pending[h] \in {"down", "up"}
  /\ pending' = Remove(pending, h)
  /\ IF h \in DOMAIN downloads
     THEN Answer({downloads[h]}, "err") /\ downloads' = Remove(downloads, h)
                                        /\ UNCHANGED uploads
     ELSE IF h \in DOMAIN uploads
     THEN Answer({uploads[h]}, "err") /\ uploads' = Remove(uploads, h)
                                      /\ UNCHANGED downloads
     ELSE UNCHANGED <<st, res, downloads, uploads>>
  /\ UNCHANGED <<commands, con, reconnects, connects, disconnects, used, accepted>>

\* (mutant) the end of the stream without draining disconnects.
StreamEndNoDrain ==
  /\ con' = "gone"
  /\ ended' = TRUE
  /\ pending' = [h \in {} |-> "cmd"]
  /\ UNCHANGED <<st, res, disconnects, commands, downloads, uploads, used, connects,
                 reconnects, accepted>>

\* The stream ends (None), after a disconnect or a fatal error: every
\* waiter in disconnects is answered.  Results still owed never come.
StreamEnd ==
  /\ con' = "gone"
  /\ ended' = TRUE
  /\ Answer(disconnects, "ok")
  /\ disconnects' = {}
  /\ pending' = [h \in {} |-> "cmd"]
  /\ UNCHANGED <<commands, downloads, uploads, used, connects, reconnects, accepted>>

ResultItem(h) ==
  MessageResult(h) \/ FileDownload(h) \/ FileUpload(h) \/ FileTransferFailed(h)

PollCon ==
  /\ alive /\ ~ended /\ con # "gone"
  /\ \/ ConEvents
     \/ DisconnectedTemporarily
     \/ \E h \in Handles : ResultItem(h) /\ UNCHANGED ended
     \/ StreamEnd
  /\ UNCHANGED <<chan, alive, req, calls>>

-----------------------------------------------------------------------------
(* The end of the SyncConnection                                            *)

\* After poll_next returned None the owner's for_each ends and drops the
\* SyncConnection: every sender still stored, and every message still in
\* the channel, is dropped, and the receiver with it.
DropSync ==
  /\ alive /\ ended
  /\ alive' = FALSE
  /\ Answer(Range(commands) \cup Range(downloads) \cup Range(uploads)
              \cup connects \cup disconnects \cup Range(chan), "canceled")
  /\ chan' = <<>>
  /\ commands' = Remove(commands, Handles)
  /\ downloads' = Remove(downloads, Handles)
  /\ uploads' = Remove(uploads, Handles)
  /\ connects' = {} /\ disconnects' = {}
  /\ UNCHANGED <<pending, used, con, reconnects, ended, req, accepted, calls>>

Next ==
  \/ \E c \in Clients :
       \/ \E k \in Kinds : Call(c, k)
       \/ Enqueue(c)
       \/ SendFails(c)
  \/ HandleMessage
  \/ PollCon
  \/ DropSync

\* The task is woken when a message arrives and when the connection has an
\* item: HandleMessage and every item are weakly fair.  A connecting
\* connection connects or gives up (connecting_timeout), a disconnecting
\* one ends (disconnect_timeout), and a result the connection owes is
\* delivered.  tokio's semaphore serves blocked senders in order, so a
\* sender that keeps finding room is served (strong fairness).  Whether
\* the owner drops the SyncConnection after its stream ends is up to the
\* owner: DropSync is not fair.
Fairness ==
  /\ WF_vars(HandleMessage)
  /\ WF_vars(alive /\ ~ended /\ con = "connecting" /\ (ConEvents \/ StreamEnd)
             /\ UNCHANGED <<chan, alive, req, calls>>)
  /\ WF_vars(alive /\ ~ended /\ con = "disconnecting" /\ StreamEnd
             /\ UNCHANGED <<chan, alive, req, calls>>)
  /\ \A h \in Handles : WF_vars(alive /\ ~ended /\ con # "gone" /\ ResultItem(h)
                                /\ UNCHANGED <<chan, alive, req, calls, ended>>)
  /\ \A c \in Clients : SF_vars(Enqueue(c)) /\ WF_vars(SendFails(c))

Spec == Init /\ [][Next]_vars /\ Fairness

-----------------------------------------------------------------------------
(* Properties                                                               *)

\* A disconnect() whose request con.disconnect accepted returns Ok: when
\* the stream ends, poll_next answers every sender in disconnects before
\* it returns None, so none of them is dropped with the SyncConnection,
\* also when other calls race with the end.
DisconnectAnsweredOk ==
  \A c \in accepted :
    req[c] = "Disconnect" /\ st[c] = "answered" => res[c] = "ok"

\* Every call of a handle method returns unless the connection's stream
\* ends first: its message is handled and its waiter is answered by a
\* later stream item (ConEvents for wait_until_connected, the result for
\* its handle, the end for disconnect), through reconnects and calls of
\* other clients racing for the channel.  Once the stream has ended only
\* the owner's drop of the SyncConnection answers what is left.
EveryRequestAnswered ==
  \A c \in Clients :
    st[c] \in {"sending", "waiting"} ~> (st[c] = "answered" \/ ended)

====
