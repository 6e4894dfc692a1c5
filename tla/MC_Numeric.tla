----------------------------- MODULE MC_Numeric -----------------------------
(***************************************************************************)
(* The bounded arithmetic of the code, checked against reference           *)
(* definitions in one model:                                               *)
(*  - PartialPacketId's order, Add and Sub (PacketIds), from any id x     *)
(*    against every other id and operand;                                  *)
(*  - the hash cash search of Identity::upgrade_level (Identity);          *)
(*  - add_buffer_size of AudioQueue (Audio), driven on its own over any    *)
(*    stream of buffer sizes, starting as AudioQueue::new starts it (one   *)
(*    entry of size 0), up to the last push before the u16 insertion tick *)
(*    overflows (a debug-build panic). The handler's variables stay at    *)
(*    their initial values;                                                *)
(*  - the conversion of struct and enum fields by ffigen (FfiTypes).       *)
(* The four share no state, so a behaviour exercises one of them (piece)   *)
(* while the others keep a fixed value: a step picks a new id, is a call   *)
(* on the identity or pushes one buffer size; a conversion is one call.   *)
(***************************************************************************)
EXTENDS PacketIds, Identity, Audio, FfiTypes

CONSTANT Sizes   \* buffer sizes pushed

VARIABLES
  piece,  \* the part exercised: "ids", "identity", "window" or "ffi"
  win,    \* the lbs / cur fields of one AudioQueue
  recent  \* the last LastBufferSizeCount sizes pushed (reference)

\* The last n elements of s.
LastN(s, n) == IF Len(s) <= n THEN s ELSE SubSeq(s, Len(s) - n + 1, Len(s))

SMInit ==
  /\ win = AddBufferSize([lbs |-> <<>>, cur |-> 0], 0).q
  /\ recent = <<0>>

SMNext ==
  \E size \in Sizes :
    /\ AddBufferSize(win, size).panic = "none"
    /\ win' = AddBufferSize(win, size).q
    /\ recent' = LastN(Append(recent, size), LastBufferSizeCount)

\* The values the parts not exercised keep.
PidFixed == x = [gen |-> 0, pid |-> 0]
IdFixed == counter = 0 /\ hcl = [c \in Counters |-> 0] /\ keyOk = TRUE
FfiFixed == item = [kind |-> "struct", fields |-> <<Syn("unit", "", <<>>)>>]

NumInit ==
  /\ Init /\ SMInit
  /\ \/ piece = "ids" /\ PidInit /\ IdFixed /\ FfiFixed
     \/ piece = "identity" /\ PidFixed /\ IdInit /\ FfiFixed
     \/ piece = "window" /\ PidFixed /\ IdFixed /\ FfiFixed
     \/ piece = "ffi" /\ PidFixed /\ IdFixed /\ FfiInit

NumNext ==
  /\ UNCHANGED <<vars, piece>>
  /\ \/ piece = "ids" /\ PidNext /\ UNCHANGED <<ivars, win, recent, item>>
     \/ piece = "identity" /\ IdNext /\ UNCHANGED <<x, win, recent, item>>
     \/ piece = "window" /\ SMNext /\ UNCHANGED <<x, ivars, item>>

NumSpec == NumInit /\ [][NumNext]_<<vars, piece, x, ivars, win, recent, item>>

\* The front of last_buffer_samples is the minimum of the sizes pushed by
\* the last LAST_BUFFER_SIZE_COUNT calls of add_buffer_size: pop_back of
\* larger sizes and pop_front of aged ticks together keep it, for every
\* stream of sizes (get_min_queue_size relies on it).
SlidingMinCorrect ==
  win.lbs # <<>> /\ Head(win.lbs)[2] = Min(ToSet(recent))
=============================================================================
