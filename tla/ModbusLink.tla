------------------------------ MODULE ModbusLink ------------------------------
(***************************************************************************)
(* GripperModbusClient's transactions over a Modbus RTU line, and what the *)
(* gripper and the line (external) may do to them: lose or delay a         *)
(* request, lose or corrupt any part of a reply, refuse a request.         *)
(*                                                                         *)
(* A reply is a head (unit, function code, byte count) and a tail          *)
(* (registers and checksum).  RTU frames carry no transaction number, so   *)
(* a part is told apart only by what the client can see of it; req is      *)
(* known to the model alone.                                               *)
(***************************************************************************)
EXTENDS Naturals, Sequences

CONSTANT MaxRequests   \* bound: transactions in one behaviour

(* Function codes: readStatus, writeCommand and exchange.                  *)
Kind == {"read", "write", "exchange"}
Request == Nat \ {0}
Part == [req: Request, kind: Kind \cup {"refusal"}, part: {"head", "tail"},
         intact: BOOLEAN]

VARIABLES
    stage,     \* where the client's call stands
    request,   \* the transaction under way or last made, by its number
    kind,      \* its kind
    kinds,     \* the kind of every transaction so far
    result,    \* how it ended
    reply,     \* the parts of the reply it accepted
    device,    \* the request the gripper works on, if any
    sent,      \* the parts on their way to the client
    line,      \* the parts in the client's receive buffer
    applied,   \* the requests whose registers the gripper has written
    late       \* history: the older ones that the gripper still worked on, or
               \* whose reply was on its way, when the transaction began

clientVars == <<stage, request, kind, kinds, result, reply>>
linkVars == <<clientVars, device, sent, line, applied, late>>

(* Types: transactions are numbered one by one, and the gripper works on   *)
(* and applies only what was sent to it.                                   *)
TypeOK ==
    /\ stage \in {"idle", "send", "head", "tail"}
    /\ request \in Nat
    /\ kind \in Kind
    /\ kinds \in [1..request -> Kind]
    /\ result \in {"none", "ok", "error"}
    /\ reply \in SUBSET Part
    /\ device \in SUBSET (1..request)
    /\ sent \in Seq(Part)
    /\ line \in Seq(Part)
    /\ applied \subseteq 1..request
    /\ late \subseteq 1..request

LinkInit ==
    /\ stage = "idle"
    /\ request = 0
    /\ kind = "read"
    /\ kinds = <<>>
    /\ result = "none"
    /\ reply = {}
    /\ device = {}
    /\ sent = <<>>
    /\ line = <<>>
    /\ applied = {}
    /\ late = {}

-----------------------------------------------------------------------------
(* Mutant: the request is sent without emptying the receive buffer.        *)
FlushedNot == line

Flushed == <<>>

(* A transaction begins: msg_state_req empties the receive buffer.         *)
Begin(k) ==
    /\ stage = "idle"
    /\ request < MaxRequests
    /\ stage' = "send"
    /\ request' = request + 1
    /\ kind' = k
    /\ kinds' = Append(kinds, k)
    /\ result' = "none"
    /\ reply' = {}
    /\ line' = Flushed
    /\ late' = device \cup {sent[i].req : i \in DOMAIN sent}
    /\ UNCHANGED <<device, sent, applied>>

(* The request reaches the gripper, or it does not; a gripper still at     *)
(* work on another one does not hear it.                                   *)
Reaches == device = {} /\ device' = {request}
Misses == device' = device

Send ==
    /\ stage = "send"
    /\ stage' = "head"
    /\ Reaches \/ Misses
    /\ UNCHANGED <<request, kind, kinds, result, reply, sent, line, applied, late>>

(* The call ends: check throws on anything but NMBS_ERROR_NONE.            *)
Ends(r) ==
    /\ stage' = "idle"
    /\ result' = r
    /\ UNCHANGED <<request, kind, kinds, late>>

(* writeSerial reports a failure, although the bytes may still go out.     *)
SendFails ==
    /\ stage = "send"
    /\ Ends("error")
    /\ Reaches \/ Misses
    /\ UNCHANGED <<reply, sent, line, applied>>

(* recv_res_header: unit and function code are the request's.              *)
HeadFits(p) == p.part = "head" /\ p.intact /\ p.kind = kind

HeadAccepted ==
    /\ stage = "head"
    /\ line # <<>>
    /\ HeadFits(Head(line))
    /\ stage' = "tail"
    /\ reply' = {Head(line)}
    /\ line' = Tail(line)
    /\ UNCHANGED <<request, kind, kinds, result, device, sent, applied, late>>

(* A refusal, another unit or function code, or bytes that are no head.    *)
HeadRejected ==
    /\ stage = "head"
    /\ line # <<>>
    /\ ~HeadFits(Head(line))
    /\ Ends("error")
    /\ line' = Tail(line)
    /\ UNCHANGED <<reply, device, sent, applied>>

(* recv_msg_footer: the checksum is that of the bytes received.  The heads *)
(* of two replies of a kind are the same bytes, so that the tail of one    *)
(* completes the head of the other.                                        *)
TailFits(p) == /\ p.part = "tail" /\ p.intact
               /\ \E h \in reply : h.kind = p.kind

TailAccepted ==
    /\ stage = "tail"
    /\ line # <<>>
    /\ TailFits(Head(line))
    /\ Ends("ok")
    /\ reply' = reply \cup {Head(line)}
    /\ line' = Tail(line)
    /\ UNCHANGED <<device, sent, applied>>

TailRejected ==
    /\ stage = "tail"
    /\ line # <<>>
    /\ ~TailFits(Head(line))
    /\ Ends("error")
    /\ line' = Tail(line)
    /\ UNCHANGED <<reply, device, sent, applied>>

(* readSerial comes back short: the read timeout for the first byte, the   *)
(* byte timeout after it.                                                  *)
TimesOut ==
    /\ stage \in {"head", "tail"}
    /\ line = <<>>
    /\ Ends("error")
    /\ UNCHANGED <<reply, device, sent, line, applied>>

-----------------------------------------------------------------------------
(* The gripper writes the registers, then answers; it writes none for a    *)
(* read.                                                                   *)
Frame(r, k) == <<[req |-> r, kind |-> k, part |-> "head", intact |-> TRUE],
                 [req |-> r, kind |-> k, part |-> "tail", intact |-> TRUE]>>

Answers(r) ==
    /\ r \in device
    /\ device' = {}
    /\ applied' = IF kinds[r] = "read" THEN applied ELSE applied \cup {r}
    /\ sent' = sent \o Frame(r, kinds[r])
    /\ UNCHANGED <<clientVars, line, late>>

(* It refuses with an exception.                                           *)
GripperRefuses(r) ==
    /\ r \in device
    /\ device' = {}
    /\ sent' = sent \o Frame(r, "refusal")
    /\ UNCHANGED <<clientVars, line, applied, late>>

(* The next part arrives, garbled or not, or is lost.                      *)
Delivers(intact) ==
    /\ sent # <<>>
    /\ line' = Append(line, [Head(sent) EXCEPT !.intact = intact])
    /\ sent' = Tail(sent)
    /\ UNCHANGED <<clientVars, device, applied, late>>

Loses ==
    /\ sent # <<>>
    /\ sent' = Tail(sent)
    /\ UNCHANGED <<clientVars, device, line, applied, late>>

LinkDone ==
    /\ stage = "idle" /\ request = MaxRequests
    /\ UNCHANGED linkVars

LinkNext ==
    \/ \E k \in Kind : Begin(k)
    \/ Send \/ SendFails
    \/ HeadAccepted \/ HeadRejected \/ TailAccepted \/ TailRejected
    \/ TimesOut
    \/ \E r \in device : Answers(r) \/ GripperRefuses(r)
    \/ \E b \in BOOLEAN : Delivers(b)
    \/ Loses
    \/ LinkDone

LinkSpec == LinkInit /\ [][LinkNext]_linkVars

-----------------------------------------------------------------------------
(* PROPERTIES                                                              *)

(* What a transaction succeeds with, whatever was lost, garbled, refused   *)
(* or left over from the ones before: parts of the gripper's answer to it, *)
(* or of its answer to an older one that was still under way when it       *)
(* began, never of what had arrived by then.  Even a late part answers a   *)
(* request of the same kind, and one that writes registers has written     *)
(* them.  The flush in msg_state_req before every request, the function    *)
(* code and the checksum.                                                  *)
AnswerIsOwn ==
    result = "ok" =>
      \A p \in reply :
        /\ p.req = request \/ p.req \in late
        /\ kinds[p.req] = kind
        /\ kind # "read" => p.req \in applied
=============================================================================
