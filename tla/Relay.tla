-------------------------------- MODULE Relay -------------------------------
(***************************************************************************)
(* The relay of a forwarded connection: proxyBidirectional, whose pumps    *)
(* proxySMTPBidirectional repeats with an observer in them.  Two pumps     *)
(* copy the two directions of a TCP stream; the function waits for both    *)
(* results and closes both sockets on an error.                            *)
(*                                                                         *)
(* The k-th byte a peer sends is the number k.  Time is counted in ticks:  *)
(* the deadlines pumps set are IdleTimeout ticks ahead.                    *)
(***************************************************************************)
EXTENDS Naturals, Sequences

CONSTANTS
  MaxSent,      \* bound: bytes a direction carries
  Window,       \* bytes a receiving peer leaves unread before writes block
  IdleTimeout   \* idleTimeout in ticks

Ends == {"client", "backend"}
Dirs == {"up", "down"}
Src(d) == IF d = "up" THEN "client" ELSE "backend"
Dst(d) == IF d = "up" THEN "backend" ELSE "client"
Other(d) == IF d = "up" THEN "down" ELSE "up"
Told == {"nothing", "end", "reset"}

ASSUME RelayAssumption ==
  /\ MaxSent \in [Dirs -> Nat]
  /\ Window \in Nat \ {0}
  /\ IdleTimeout \in Nat \ {0}

VARIABLES
  sent,      \* per direction: bytes its source has sent
  fin,       \* per direction: its source has closed its sending half
  gone,      \* ends whose connection was reset
  taken,     \* per direction: bytes the receiving peer has read
  read,      \* per direction: bytes its pump has read
  wrote,     \* per direction: bytes its pump counts as written
  out,       \* per direction: the bytes written to the destination
  told,      \* per direction: what the destination has been told of the end
  tail,      \* per direction: what the last Read returned beside its bytes
  pump,      \* per direction: reading, writing, or returned "ok" or "err"
  idle,      \* per direction: ticks since the pump last set a deadline
  collected, \* directions whose result has been received from done
  open       \* ends the relay has not closed

relayVars == <<sent, fin, gone, taken, read, wrote, out, told, tail, pump, idle,
               collected, open>>
peers == <<sent, fin, gone, taken>>
copying == <<read, wrote, out, told, tail, pump, idle>>

Running(d) == pump[d] \in {"read", "write"}
Returned(d) == pump[d] \in {"ok", "err"}
Alive(e) == e \in open /\ e \notin gone

RelayInit ==
  /\ sent   = [d \in Dirs |-> 0]
  /\ fin    = [d \in Dirs |-> FALSE]
  /\ gone   = {}
  /\ taken  = [d \in Dirs |-> 0]
  /\ read   = [d \in Dirs |-> 0]
  /\ wrote  = [d \in Dirs |-> 0]
  /\ out    = [d \in Dirs |-> <<>>]
  /\ told   = [d \in Dirs |-> "nothing"]
  /\ tail   = [d \in Dirs |-> "none"]
  /\ pump   = [d \in Dirs |-> "read"]
  /\ idle   = [d \in Dirs |-> 0]
  /\ collected = {}
  /\ open = Ends

-----------------------------------------------------------------------------
(* The peers.                                                              *)

PeerSends(d) ==
  /\ Alive(Src(d))
  /\ ~fin[d]
  /\ sent[d] < MaxSent[d]
  /\ sent' = [sent EXCEPT ![d] = @ + 1]
  /\ UNCHANGED <<fin, gone, taken, copying, collected, open>>

PeerFinishes(d) ==
  /\ Alive(Src(d))
  /\ ~fin[d]
  /\ fin' = [fin EXCEPT ![d] = TRUE]
  /\ UNCHANGED <<sent, gone, taken, copying, collected, open>>

PeerReads(d) ==
  /\ taken[d] < Len(out[d])
  /\ taken' = [taken EXCEPT ![d] = @ + 1]
  /\ UNCHANGED <<sent, fin, gone, copying, collected, open>>

PeerResets(e) ==
  /\ Alive(e)
  /\ gone' = gone \cup {e}
  /\ UNCHANGED <<sent, fin, taken, copying, collected, open>>

-----------------------------------------------------------------------------
(* A pump.                                                                 *)

Return(d, result) == pump' = [pump EXCEPT ![d] = result]
SetDeadline(d) == idle' = [idle EXCEPT ![d] = 0]

\* Read returns bytes: the write deadline is set and writing begins.  With the
\* last bytes a Conn may already report how the stream ended.
ReadBytes(d) ==
  /\ pump[d] = "read"
  /\ Src(d) \in open
  /\ \E n \in (read[d] + 1) .. sent[d] :
       /\ read' = [read EXCEPT ![d] = n]
       /\ \E t \in {"none"}
              \cup (IF fin[d] /\ n = sent[d] THEN {"eof"} ELSE {})
              \cup (IF Src(d) \in gone THEN {"error"} ELSE {}) :
            tail' = [tail EXCEPT ![d] = t]
  /\ Return(d, "write")
  /\ SetDeadline(d)
  /\ UNCHANGED <<peers, wrote, out, told, collected, open>>

\* CloseWrite on the destination, its error ignored.
HalfClose(d) == told' = [told EXCEPT ![d] = IF Alive(Dst(d)) THEN "end" ELSE @]

ReadEof(d) ==
  /\ pump[d] = "read"
  /\ Alive(Src(d)) /\ fin[d] /\ read[d] = sent[d]
  /\ HalfClose(d)
  /\ Return(d, "ok")
  /\ UNCHANGED <<peers, read, wrote, out, tail, idle, collected, open>>

\* The source was reset, or closed by the relay.
ReadFails(d) ==
  /\ pump[d] = "read"
  /\ ~Alive(Src(d))
  /\ Return(d, "err")
  /\ UNCHANGED <<peers, read, wrote, out, told, tail, idle, collected, open>>

Room(d) == Len(out[d]) - taken[d] < Window

\* The pump has written what it read: it goes on as Read's error says.
AfterChunk(d) ==
  CASE tail[d] = "none"  -> Return(d, "read") /\ SetDeadline(d) /\ UNCHANGED told
    [] tail[d] = "eof"   -> HalfClose(d) /\ Return(d, "ok") /\ UNCHANGED idle
    [] tail[d] = "error" -> Return(d, "err") /\ UNCHANGED <<idle, told>>

\* Mutant: the bytes that came with the end of the stream are not written.
DropLastBytes(d) ==
  /\ pump[d] = "write"
  /\ Alive(Dst(d))
  /\ IF tail[d] = "none"
     THEN /\ Room(d)
          /\ out' = [out EXCEPT ![d] = Append(@, wrote[d] + 1)]
          /\ wrote' = [wrote EXCEPT ![d] = @ + 1]
          /\ IF wrote[d] + 1 = read[d] THEN AfterChunk(d)
             ELSE UNCHANGED <<pump, idle, told>>
     ELSE AfterChunk(d) /\ UNCHANGED <<out, wrote>>
  /\ UNCHANGED <<peers, read, tail, collected, open>>

\* Mutant: after a short write the chunk is not advanced past what was written.
WriteByteAgain(d) ==
  /\ pump[d] = "write"
  /\ Alive(Dst(d))
  /\ Room(d)
  /\ out' = [out EXCEPT ![d] = Append(@, wrote[d] + 1)]
  /\ \/ /\ wrote' = [wrote EXCEPT ![d] = @ + 1]
        /\ IF wrote[d] + 1 = read[d] THEN AfterChunk(d)
           ELSE UNCHANGED <<pump, idle, told>>
     \/ UNCHANGED <<wrote, pump, idle, told>>
  /\ UNCHANGED <<peers, read, tail, collected, open>>

\* A byte of the chunk is written.
WriteByte(d) ==
  /\ pump[d] = "write"
  /\ Alive(Dst(d))
  /\ Room(d)
  /\ out' = [out EXCEPT ![d] = Append(@, wrote[d] + 1)]
  /\ wrote' = [wrote EXCEPT ![d] = @ + 1]
  /\ IF wrote[d] + 1 = read[d] THEN AfterChunk(d)
     ELSE UNCHANGED <<pump, idle, told>>
  /\ UNCHANGED <<peers, read, tail, collected, open>>

WriteFails(d) ==
  /\ pump[d] = "write"
  /\ ~Alive(Dst(d))
  /\ Return(d, "err")
  /\ UNCHANGED <<peers, read, wrote, out, told, tail, idle, collected, open>>

\* A pump that cannot go on: nothing to read, or no room to write.
Waiting(d) ==
  \/ pump[d] = "read" /\ Alive(Src(d)) /\ read[d] = sent[d] /\ ~fin[d]
  \/ pump[d] = "write" /\ Alive(Dst(d)) /\ ~Room(d)

\* Mutant: writes have no deadline.
TimesOutReading(d) ==
  /\ idle[d] = IdleTimeout
  /\ Waiting(d) /\ pump[d] = "read"
  /\ Return(d, "err")
  /\ UNCHANGED <<peers, read, wrote, out, told, tail, idle, collected, open>>

\* The deadline of a waiting pump expires.
TimesOut(d) ==
  /\ idle[d] = IdleTimeout
  /\ Waiting(d)
  /\ Return(d, "err")
  /\ UNCHANGED <<peers, read, wrote, out, told, tail, idle, collected, open>>

-----------------------------------------------------------------------------
(* The loop over done, and what closes the sockets.                        *)

Unread(e) == \E d \in Dirs : Src(d) = e /\ read[d] < sent[d]

\* Closing a socket looks to its peer like the end of the stream it receives, unless
\* it was told before: close sends what CloseWrite sends.  If the peer has sent bytes
\* that no pump has read, it may be a reset.
Shut(ends) ==
  /\ open' = open \ ends
  /\ told' \in [Dirs -> Told]
  /\ \A d \in Dirs :
       IF told[d] = "nothing" /\ Dst(d) \in ends /\ Alive(Dst(d))
       THEN told'[d] \in {"end"} \cup (IF Unread(Dst(d)) THEN {"reset"} ELSE {})
       ELSE told'[d] = told[d]

\* Mutant: on an error only the source of the failed pump is closed.
CollectClosesSource(d) ==
  /\ Returned(d)
  /\ d \notin collected
  /\ collected' = collected \cup {d}
  /\ IF pump[d] = "err" THEN Shut({Src(d)}) ELSE UNCHANGED <<told, open>>
  /\ UNCHANGED <<peers, read, wrote, out, tail, pump, idle>>

\* Mutant: the sockets are closed on the first result.
CollectClosesAlways(d) ==
  /\ Returned(d)
  /\ d \notin collected
  /\ collected' = collected \cup {d}
  /\ Shut(Ends)
  /\ UNCHANGED <<peers, read, wrote, out, tail, pump, idle>>

Collect(d) ==
  /\ Returned(d)
  /\ d \notin collected
  /\ collected' = collected \cup {d}
  /\ IF pump[d] = "err" THEN Shut(Ends) ELSE UNCHANGED <<told, open>>
  /\ UNCHANGED <<peers, read, wrote, out, tail, pump, idle>>

\* The relay has returned: the handler's deferred calls close what is open.
Close ==
  /\ collected = Dirs
  /\ open # {}
  /\ Shut(Ends)
  /\ UNCHANGED <<peers, read, wrote, out, tail, pump, idle, collected>>

\* Time passes.  A tick is long: no pump that could go on sits one out, nor does
\* one whose deadline has come.
Tick ==
  /\ \E d \in Dirs : Running(d)
  /\ \A d \in Dirs : Running(d) => Waiting(d) /\ idle[d] < IdleTimeout
  /\ idle' = [d \in Dirs |-> IF Running(d) THEN idle[d] + 1 ELSE idle[d]]
  /\ UNCHANGED <<peers, read, wrote, out, told, tail, pump, collected, open>>

-----------------------------------------------------------------------------
Peer(d) == PeerSends(d) \/ PeerFinishes(d) \/ PeerReads(d)

Pump(d) ==
  \/ ReadBytes(d) \/ ReadEof(d) \/ ReadFails(d)
  \/ WriteByte(d) \/ WriteFails(d) \/ TimesOut(d)

Relaying == Close \/ \E d \in Dirs : Collect(d)

RelayNext ==
  \/ \E d \in Dirs : Peer(d) \/ Pump(d) \/ Collect(d)
  \/ \E e \in Ends : PeerResets(e)
  \/ Close
  \/ Tick

RelaySpec == RelayInit /\ [][RelayNext]_relayVars

\* The runtime schedules every goroutine.  Peers owe nothing.
FairSpec ==
  /\ RelaySpec
  /\ \A d \in Dirs : WF_relayVars(Pump(d))
  /\ WF_relayVars(Relaying)

-----------------------------------------------------------------------------
RelayTypeOK ==
  /\ sent \in [Dirs -> Nat] /\ read \in [Dirs -> Nat] /\ wrote \in [Dirs -> Nat]
  /\ out \in [Dirs -> Seq(Nat)] /\ taken \in [Dirs -> Nat]
  /\ \A d \in Dirs : /\ sent[d] <= MaxSent[d] /\ read[d] <= sent[d]
                     /\ wrote[d] <= read[d] /\ taken[d] <= Len(out[d])
  /\ fin \in [Dirs -> BOOLEAN] /\ told \in [Dirs -> Told]
  /\ gone \subseteq Ends /\ open \subseteq Ends
  /\ tail \in [Dirs -> {"none", "eof", "error"}]
  /\ pump \in [Dirs -> {"read", "write", "ok", "err"}]
  /\ idle \in [Dirs -> 0 .. IdleTimeout]
  /\ collected \subseteq Dirs

\* A destination receives a prefix of what the source sent, in order and without
\* repetition, however reads and short writes cut it up.
DeliveredInOrder ==
  \A d \in Dirs : /\ Len(out[d]) <= sent[d]
                  /\ \A i \in 1 .. Len(out[d]) : out[d][i] = i

\* A destination that sees its stream end before it has all of it owes that to a reset
\* or to a pump that waited a whole idle timeout.  It cannot tell that end from a clean
\* one, so the relay must not cut a stream for any other reason, however ends, errors and
\* the results of the pumps are ordered.
CutsHaveACause ==
  \A d \in Dirs : told[d] = "end" =>
    \/ fin[d] /\ Len(out[d]) = sent[d]
    \/ gone # {}
    \/ \E k \in Dirs : pump[k] = "err" /\ idle[k] = IdleTimeout

\* A clean end of one direction leaves the other running: the sockets are closed
\* only when some pump has failed or both have returned.
CleanEndLeavesOther ==
  [][ open' # open => \/ \E d \in Dirs : pump[d] = "err"
                      \/ \A d \in Dirs : Returned(d) ]_relayVars

\* When a pump fails the other returns, blocked as it may be on a silent source
\* or a destination that does not read, and without its own deadline's help.
ErrorUnblocksOther ==
  \A d \in Dirs : pump[d] = "err" ~> Returned(Other(d))

\* If time passes, the relay ends, although a peer may stop sending, reading and closing at
\* any point.  Each sends a bounded number of bytes: one that never stops sending keeps its
\* relay, as it may.
RelayEnds == WF_relayVars(Tick) => <>(collected = Dirs)
=============================================================================
