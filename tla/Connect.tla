------------------------------- MODULE Connect -------------------------------
(***************************************************************************)
(* Connection::new of tsclientlib (src/tsclientlib/src/lib.rs): the        *)
(* resolved addresses are tried one after the other (Stream::and_then);    *)
(* an attempt creates the client, connects, sends clientinit and waits for *)
(* the first command that the SimplePacketHandler's filter forwards over   *)
(* the initserver channel (futures::sync::mpsc::channel(0)).  A failed     *)
(* attempt becomes None (.then(|r| Ok(r.ok()))) and is skipped; the first  *)
(* success ends the stream (into_future).                                  *)
(*                                                                         *)
(* The initserver channel has two senders: the one stored in the packet    *)
(* handler (initserver_sender) and the clone moved into the command        *)
(* stream's filter.  channel(0) gives each sender one slot: try_send       *)
(* succeeds when the sender's last message was taken.  The receiver is     *)
(* dropped once its first item is taken.  The tsproto client, its          *)
(* handshake and the server are the environment: every step may fail, and  *)
(* the server sends commands, initserver only in reply to clientinit.      *)
(***************************************************************************)
EXTENDS Naturals, Sequences

CONSTANTS
  NAddrs,        \* addresses the resolver yields
  MaxCmds,       \* bound: commands the server sends per attempt
  ServerLosses   \* the connection may die after the handshake

ASSUME NAddrs \in Nat \ {0} /\ MaxCmds \in Nat /\ ServerLosses \in BOOLEAN

Addrs == 1..NAddrs
Cmds == {"initserver", "other"}
Phases == {"next", "client", "connecting", "clientinit", "waitinit", "ok", "failed",
           "disconnecting", "closed"}

VARIABLES
  phase,      \* where Connection::new is
  i,          \* the address being tried
  outcome,    \* address -> "untried" | "failed" | "ok"
  chan,       \* the initserver channel
  senders,    \* its live senders: "handler", "stream"
  rxOpen,     \* its receiver is alive
  conAlive,   \* the tsproto connection of the attempt is up
  sentCmds,   \* commands the server sent on this attempt
  initSent,   \* the server sent initserver on this attempt
  result,     \* "none" | "ok" | "err"
  dres        \* result of Connection::disconnect: "none" | "ok" | "err"

vars == <<phase, i, outcome, chan, senders, rxOpen, conAlive, sentCmds,
          initSent, result, dres>>

TypeOK ==
  /\ phase \in Phases /\ i \in 0..NAddrs
  /\ outcome \in [Addrs -> {"untried", "failed", "ok"}]
  /\ chan \in Seq(Cmds) /\ Len(chan) <= 1
  /\ senders \subseteq {"handler", "stream"}
  /\ rxOpen \in BOOLEAN /\ conAlive \in BOOLEAN /\ initSent \in BOOLEAN
  /\ sentCmds \in 0..MaxCmds
  /\ result \in {"none", "ok", "err"} /\ dres \in {"none", "ok", "err"}

-----------------------------------------------------------------------------

\* The ECDH key exists; the address stream is about to be polled.
Init ==
  /\ phase = "next" /\ i = 0
  /\ outcome = [a \in Addrs |-> "untried"]
  /\ chan = <<>> /\ senders = {} /\ rxOpen = FALSE
  /\ conAlive = FALSE /\ sentCmds = 0 /\ initSent = FALSE
  /\ result = "none" /\ dres = "none"

\* (mutant) a failed attempt that ends the address stream, as without the
\* .then that turns errors into None.
AttemptFailsEndsStream ==
  /\ outcome' = [outcome EXCEPT ![i] = "failed"]
  /\ phase' = "failed" /\ result' = "err"
  /\ chan' = <<>> /\ senders' = {} /\ rxOpen' = FALSE /\ conAlive' = FALSE
  /\ UNCHANGED <<i, sentCmds, initSent, dres>>

\* An attempt fails: its future resolves to Err, .then turns it into None
\* and filter_map skips it.  The attempt's client, with its connection
\* and both senders, is dropped.
AttemptFails ==
  /\ outcome' = [outcome EXCEPT ![i] = "failed"]
  /\ phase' = "next"
  /\ chan' = <<>> /\ senders' = {} /\ rxOpen' = FALSE /\ conAlive' = FALSE
  /\ UNCHANGED <<i, sentCmds, initSent, result, dres>>

\* into_future polls the next address, or the stream has ended:
\* "Failed to connect to server".
NextAddr ==
  /\ phase = "next"
  /\ IF i < NAddrs
     THEN /\ i' = i + 1 /\ phase' = "client"
          /\ chan' = <<>> /\ senders' = {"handler"} /\ rxOpen' = TRUE
          /\ sentCmds' = 0 /\ initSent' = FALSE
          /\ UNCHANGED <<outcome, conAlive, result, dres>>
     ELSE /\ phase' = "failed" /\ result' = "err"
          /\ UNCHANGED <<i, outcome, chan, senders, rxOpen, conAlive, sentCmds,
                         initSent, dres>>

\* ClientData::new for the address: the packet handler holds the
\* initserver sender.
ClientNew ==
  /\ phase = "client"
  /\ \/ /\ phase' = "connecting"
        /\ UNCHANGED <<i, outcome, chan, senders, rxOpen, conAlive, sentCmds,
                       initSent, result, dres>>
     \/ AttemptFails

\* client::connect: the handshake completes and new_connection wraps the
\* command stream with the filter, which holds a clone of the sender.
Connect ==
  /\ phase = "connecting"
  /\ \/ /\ phase' = "clientinit" /\ conAlive' = TRUE
        /\ senders' = senders \cup {"stream"}
        /\ UNCHANGED <<i, outcome, chan, rxOpen, sentCmds, initSent,
                       result, dres>>
     \/ AttemptFails

\* Hash cash, the clientinit packet and sink.send: it fails on a dead
\* connection.
SendClientInit ==
  /\ phase = "clientinit"
  /\ IF conAlive
     THEN /\ phase' = "waitinit"
          /\ UNCHANGED <<i, outcome, chan, senders, rxOpen, conAlive, sentCmds,
                         initSent, result, dres>>
     ELSE AttemptFails

\* initserver_poll: the first item of the channel decides the attempt.
\* A command other than InitServer, and the end of the channel (every
\* sender dropped), are "Got no initserver".  The rest of the receiver is
\* dropped with the tuple.
RecvInit ==
  /\ phase = "waitinit"
  /\ chan # <<>> \/ senders = {}
  /\ IF chan # <<>> /\ Head(chan) = "initserver"
     THEN /\ phase' = "ok" /\ result' = "ok"
          /\ outcome' = [outcome EXCEPT ![i] = "ok"]
          /\ chan' = <<>> /\ rxOpen' = FALSE
          /\ UNCHANGED <<i, senders, conAlive, sentCmds, initSent, dres>>
     ELSE AttemptFails

-----------------------------------------------------------------------------
(* The server and the command stream                                        *)

\* (mutant) a filter that sends while its previous message is queued.
TrySendNoSlot(cmd) ==
  IF rxOpen THEN Append(chan, cmd) ELSE chan

\* try_send of the filter's sender: it succeeds while the receiver lives
\* and the sender's previous message was taken; otherwise the command is
\* lost.
TrySend(cmd) ==
  IF rxOpen /\ chan = <<>> THEN Append(chan, cmd) ELSE chan

\* A command packet arrives on the attempt's connection.  The filter
\* try_sends it and returns None, so it never reaches the packet handler
\* (handle_packets) or the default consumer.  The server sends
\* initserver once, in reply to clientinit.
CommandArrives(cmd) ==
  /\ conAlive /\ sentCmds < MaxCmds
  /\ phase \in {"clientinit", "waitinit", "ok"}
  /\ cmd = "initserver" => phase # "clientinit" /\ ~initSent
  /\ chan' = TrySend(cmd)
  /\ sentCmds' = sentCmds + 1
  /\ initSent' = (initSent \/ cmd = "initserver")
  /\ UNCHANGED <<phase, i, outcome, senders, rxOpen, conAlive, result, dres>>

\* The connection dies after the handshake (the resender times out): the
\* command stream ends and the filter with its sender is dropped.
ConnectionLost ==
  /\ ServerLosses /\ conAlive
  /\ phase \in {"clientinit", "waitinit", "ok"}
  /\ conAlive' = FALSE
  /\ senders' = senders \ {"stream"}
  /\ UNCHANGED <<phase, i, outcome, chan, rxOpen, sentCmds, initSent,
                 result, dres>>

-----------------------------------------------------------------------------
(* Connection::disconnect                                                   *)

\* disconnect(self, options): wait_for_state(Disconnected) is registered,
\* then the clientdisconnect command goes into the packet sink.  On a dead
\* connection the send fails and the future resolves with the error; self,
\* moved into the closure, is dropped with it.
Disconnect ==
  /\ phase = "ok"
  /\ IF conAlive
     THEN /\ phase' = "disconnecting"
          /\ UNCHANGED <<senders, conAlive, dres>>
     ELSE /\ phase' = "closed" /\ dres' = "err"
          /\ senders' = {} /\ UNCHANGED conAlive
  /\ UNCHANGED <<i, outcome, chan, rxOpen, sentCmds, initSent, result>>

\* The server acknowledges clientdisconnect, or disconnect_timeout passes;
\* either way the connection is Disconnected (spec: "in both cases it
\* transitions to Disconnected"), wait_for_state resolves and .map drops
\* self: the client, its connection and the handler's sender go.
Disconnected ==
  /\ phase = "disconnecting"
  /\ phase' = "closed" /\ dres' = "ok"
  /\ conAlive' = FALSE /\ senders' = {}
  /\ UNCHANGED <<i, outcome, chan, rxOpen, sentCmds, initSent, result>>

Next ==
  \/ NextAddr \/ ClientNew \/ Connect \/ SendClientInit \/ RecvInit
  \/ \E cmd \in Cmds : CommandArrives(cmd)
  \/ ConnectionLost
  \/ Disconnect \/ Disconnected

\* The futures are polled whenever they can progress, and a live server
\* answers clientinit with initserver.
Fairness ==
  /\ WF_vars(NextAddr) /\ WF_vars(ClientNew) /\ WF_vars(Connect)
  /\ WF_vars(SendClientInit) /\ WF_vars(RecvInit)
  /\ WF_vars(CommandArrives("initserver"))

Spec == Init /\ [][Next]_vars /\ Fairness

-----------------------------------------------------------------------------
(* Properties                                                               *)

\* The result is the first address whose attempt succeeded: every address
\* before it was tried and failed and none after it was tried; a failure
\* of Connection::new means every resolved address was tried and failed.
ConnectResultSound ==
  /\ result = "ok" => /\ outcome[i] = "ok"
                      /\ \A a \in Addrs : a < i => outcome[a] = "failed"
                      /\ \A a \in Addrs : a > i => outcome[a] = "untried"
  /\ result = "err" => \A a \in Addrs : outcome[a] = "failed"

\* Connection::new resolves: with the connection, or with an error when
\* every attempt failed (the specification makes a connection timeout
\* fatal and reported).
ConnectResolves == <>(result # "none")

====
