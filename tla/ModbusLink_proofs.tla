------------------------ MODULE ModbusLink_proofs ------------------------
(***************************************************************************)
(* What a Modbus transaction returns, for any number of transactions and   *)
(* whatever the line does to their replies.                                *)
(***************************************************************************)
EXTENDS ModbusLink, SequenceTheorems, TLAPS

-----------------------------------------------------------------------------
(* The inductive invariant.                                                *)

(* The parts of a reply that may be anywhere on the line: of the           *)
(* transaction under way or a late one, of its kind unless it is a         *)
(* refusal, and one that claims registers were written is of a request     *)
(* that wrote them.                                                        *)
Trusted == {p \in Part : /\ p.req = request \/ p.req \in late
                         /\ p.kind # "refusal" =>
                              /\ p.req \in 1..request
                              /\ p.kind = kinds[p.req]
                              /\ p.kind # "read" => p.req \in applied}

LineTrusted ==
    /\ sent \in Seq(Trusted)
    /\ line \in Seq(Trusted)
    /\ reply \subseteq Trusted
    /\ device \subseteq late \cup {request}

(* What the client has checked of the reply when it gets to its tail, and  *)
(* when it succeeds.                                                       *)
HeadChecked ==
    /\ stage # "idle" => result = "none" /\ request # 0
    /\ stage = "tail" => \E h \in Part : reply = {h} /\ h.kind = kind
    /\ result = "ok" => \A p \in reply : p.kind = kind

IInv == TypeOK /\ LineTrusted /\ HeadChecked

-----------------------------------------------------------------------------
(* A reply on the line.                                                    *)

(* Both parts of a frame are parts, of its request and its kind.           *)
PartsOf(r, k) == {p \in Part : p.req = r /\ p.kind = k}

LEMMA FrameParts ==
  ASSUME NEW r \in Request, NEW k \in Kind \cup {"refusal"}
  PROVE  Frame(r, k) \in Seq(PartsOf(r, k))
<1> DEFINE h == [req |-> r, kind |-> k, part |-> "head", intact |-> TRUE]
           t == [req |-> r, kind |-> k, part |-> "tail", intact |-> TRUE]
<1>1. h \in PartsOf(r, k) /\ t \in PartsOf(r, k)
  BY DEF Part, PartsOf
<1>2. Frame(r, k) = <<h, t>>
  BY DEF Frame
<1> HIDE DEF h, t
<1> QED
  BY <1>1, <1>2

(* A part that arrives, garbled or not, is one of the parts that were sent *)
(* as far as its request and kind go.                                      *)
LEMMA ArrivedPart ==
  ASSUME NEW p \in Part, NEW b \in BOOLEAN
  PROVE  /\ [p EXCEPT !.intact = b] \in Part
         /\ [p EXCEPT !.intact = b].req = p.req
         /\ [p EXCEPT !.intact = b].kind = p.kind
  BY DEF Part

(* Trusted parts stay trusted while the transaction lasts.                 *)
LEMMA TrustGrows ==
  ASSUME applied \subseteq applied', UNCHANGED <<request, late, kinds>>
  PROVE  Trusted \subseteq Trusted'
  BY DEF Trusted

(* When the next one begins, the parts that are on their way are late.     *)
LEMMA TrustRenewed ==
  ASSUME TypeOK, LineTrusted, NEW k \in Kind, Begin(k)
  PROVE  sent \in Seq(Trusted')
<1>1. sent \in Seq(Trusted)
  BY DEF LineTrusted
<1>2. ASSUME NEW i \in 1..Len(sent) PROVE sent[i] \in Trusted'
  <2>1. sent[i] \in Trusted /\ i \in DOMAIN sent
    BY <1>1, ElementOfSeq, LenProperties
  <2>2. sent[i].req \in late'
    BY <2>1 DEF Begin
  <2>3. \A r \in 1..request : r \in 1..request' /\ kinds'[r] = kinds[r]
    <3>1. kinds \in Seq(Kind) /\ Len(kinds) = request /\ request \in Nat
      BY SeqDef DEF TypeOK
    <3> QED
      BY <3>1, AppendProperties DEF Begin
  <2>4. applied' = applied
    BY DEF Begin
  <2> QED
    BY <2>1, <2>2, <2>3, <2>4 DEF Trusted
<1>3. sent \in Seq(Part)
  BY DEF TypeOK
<1> QED
  BY <1>2, <1>3, SeqDef, LenProperties

-----------------------------------------------------------------------------
(* Types.                                                                  *)
LEMMA TypeStep == TypeOK /\ HeadChecked /\ LineTrusted /\ [LinkNext]_linkVars => TypeOK'
<1> SUFFICES ASSUME TypeOK, HeadChecked, LineTrusted, [LinkNext]_linkVars PROVE TypeOK'
  OBVIOUS
<1> USE DEF TypeOK, clientVars
<1>1. CASE \E k \in Kind : Begin(k)
  <2>1. PICK k \in Kind : Begin(k)
    BY <1>1
  <2>2. request' = request + 1 /\ request' \in Nat /\ request \in Nat
    BY <2>1 DEF Begin
  <2>3. kinds \in Seq(Kind) /\ Len(kinds) = request
    BY <2>2, SeqDef
  <2>4. kinds' \in [1..request' -> Kind]
    <3>1. kinds' \in Seq(Kind) /\ Len(kinds') = request'
      BY <2>1, <2>2, <2>3, AppendProperties DEF Begin
    <3> QED
      BY <3>1, LenProperties
  <2>5. late' \subseteq 1..request'
    <3>1. \A i \in DOMAIN sent : sent[i] \in Trusted
      BY ElementOfSeq, LenProperties DEF LineTrusted
    <3>2. \A i \in DOMAIN sent : sent[i].req \in late \cup {request} /\ sent[i].req # 0
      BY <3>1 DEF Trusted, Part, Request
    <3>3. late' = device \cup {sent[i].req : i \in DOMAIN sent}
      BY <2>1 DEF Begin
    <3>4. request # 0 => request \in 1..request'
      BY <2>2
    <3>5. late \subseteq 1..request' /\ device \subseteq 1..request'
      BY <2>2
    <3> QED
      BY <3>2, <3>3, <3>4, <3>5
  <2>6. device' \in SUBSET (1..request') /\ applied' \subseteq 1..request'
    BY <2>1, <2>2 DEF Begin
  <2>7. line' \in Seq(Part) /\ sent' \in Seq(Part)
    BY <2>1, EmptySeq DEF Begin, Flushed
  <2>8. /\ stage' = "send" /\ kind' = k /\ result' = "none" /\ reply' = {}
    BY <2>1 DEF Begin
  <2> QED
    BY <2>2, <2>4, <2>5, <2>6, <2>7, <2>8
<1>2. CASE Send \/ SendFails
  <2>1. device' \in SUBSET (1..request)
    <3>1. request \in 1..request
      BY <1>2 DEF Send, SendFails, HeadChecked
    <3>2. device' = device \/ device' = {request}
      BY <1>2 DEF Send, SendFails, Reaches, Misses
    <3> QED
      BY <3>1, <3>2
  <2> QED
    BY <1>2, <2>1 DEF Send, SendFails, Ends
<1>3. CASE HeadAccepted \/ TailAccepted
  <2>1. Head(line) \in Part /\ Tail(line) \in Seq(Part)
    BY <1>3, HeadTailProperties DEF HeadAccepted, TailAccepted
  <2> QED
    BY <1>3, <2>1 DEF HeadAccepted, TailAccepted, Ends
<1>4. CASE HeadRejected \/ TailRejected
  <2>1. Tail(line) \in Seq(Part)
    BY <1>4, HeadTailProperties DEF HeadRejected, TailRejected
  <2> QED
    BY <1>4, <2>1 DEF HeadRejected, TailRejected, Ends
<1>5. CASE TimesOut
  BY <1>5 DEF TimesOut, Ends
<1>6. CASE \E r \in device : Answers(r) \/ GripperRefuses(r)
  <2>1. PICK r \in device : Answers(r) \/ GripperRefuses(r)
    BY <1>6
  <2>2. r \in Request /\ kinds[r] \in Kind
    BY DEF Request
  <2>3. sent' \in Seq(Part)
    <3>1. PartsOf(r, kinds[r]) \subseteq Part /\ PartsOf(r, "refusal") \subseteq Part
      BY DEF PartsOf
    <3>2. /\ Frame(r, kinds[r]) \in Seq(PartsOf(r, kinds[r]))
          /\ Frame(r, "refusal") \in Seq(PartsOf(r, "refusal"))
      BY <2>2, FrameParts
    <3>3. Frame(r, kinds[r]) \in Seq(Part) /\ Frame(r, "refusal") \in Seq(Part)
      BY <3>1, <3>2, SeqMonotonic
    <3>4. sent' = sent \o Frame(r, kinds[r]) \/ sent' = sent \o Frame(r, "refusal")
      BY <2>1 DEF Answers, GripperRefuses
    <3>5. sent \in Seq(Part)
      OBVIOUS
    <3>6. /\ sent \o Frame(r, kinds[r]) \in Seq(Part)
          /\ sent \o Frame(r, "refusal") \in Seq(Part)
      BY <3>3, <3>5, ConcatProperties
    <3> QED
      BY <3>4, <3>6
  <2>4. applied' \subseteq 1..request
    BY <2>1 DEF Answers, GripperRefuses
  <2> QED
    BY <2>1, <2>3, <2>4 DEF Answers, GripperRefuses
<1>7. CASE (\E b \in BOOLEAN : Delivers(b)) \/ Loses
  <2>1. Head(sent) \in Part /\ Tail(sent) \in Seq(Part)
    BY <1>7, HeadTailProperties DEF Delivers, Loses
  <2>2. line' \in Seq(Part)
    <3>1. CASE Loses
      BY <3>1 DEF Loses
    <3>2. CASE \E b \in BOOLEAN : Delivers(b)
      <4>1. PICK b \in BOOLEAN : Delivers(b)
        BY <3>2
      <4>2. [Head(sent) EXCEPT !.intact = b] \in Part
        BY <2>1, ArrivedPart
      <4> QED
        BY <4>1, <4>2, AppendProperties DEF Delivers
    <3> QED
      BY <1>7, <3>1, <3>2
  <2> QED
    BY <1>7, <2>1, <2>2 DEF Delivers, Loses
<1>8. CASE LinkDone \/ UNCHANGED linkVars
  BY <1>8 DEF LinkDone, linkVars
<1> QED
  BY <1>1, <1>2, <1>3, <1>4, <1>5, <1>6, <1>7, <1>8 DEF LinkNext

-----------------------------------------------------------------------------
(* The parts on the line.                                                  *)
LEMMA LineStep ==
  TypeOK /\ HeadChecked /\ LineTrusted /\ [LinkNext]_linkVars => LineTrusted'
<1> SUFFICES ASSUME TypeOK, HeadChecked, LineTrusted, [LinkNext]_linkVars PROVE LineTrusted'
  OBVIOUS
<1> USE DEF LineTrusted, clientVars
<1>1. CASE \E k \in Kind : Begin(k)
  <2>1. PICK k \in Kind : Begin(k)
    BY <1>1
  <2>2. line' = <<>> /\ reply' = {} /\ device' = device /\ sent' = sent
          /\ device \subseteq late'
    BY <2>1 DEF Begin, Flushed
  <2>3. sent' \in Seq(Trusted')
    BY <2>1, <2>2, TrustRenewed
  <2> QED
    BY <2>2, <2>3, EmptySeq
<1>2. CASE Send \/ SendFails \/ TimesOut
  <2>1. UNCHANGED <<request, late, kinds, applied, sent, line, reply>>
          /\ (device' = device \/ device' = {request})
    BY <1>2 DEF Send, SendFails, TimesOut, Ends, Reaches, Misses
  <2> QED
    BY <2>1 DEF Trusted
<1>3. CASE HeadAccepted \/ HeadRejected \/ TailAccepted \/ TailRejected
  <2>1. Head(line) \in Trusted /\ Tail(line) \in Seq(Trusted)
    BY <1>3, HeadTailProperties DEF HeadAccepted, HeadRejected, TailAccepted,
         TailRejected
  <2>2. UNCHANGED <<request, late, kinds, applied, sent, device>> /\ line' = Tail(line)
    BY <1>3 DEF HeadAccepted, HeadRejected, TailAccepted, TailRejected, Ends
  <2>3. reply' \subseteq reply \cup {Head(line)}
    BY <1>3 DEF HeadAccepted, HeadRejected, TailAccepted, TailRejected
  <2>4. Trusted' = Trusted
    BY <2>2 DEF Trusted
  <2> QED
    BY <2>1, <2>2, <2>3, <2>4
<1>4. CASE \E r \in device : Answers(r) \/ GripperRefuses(r)
  <2>1. PICK r \in device : Answers(r) \/ GripperRefuses(r)
    BY <1>4
  <2>2. r \in Request /\ r \in 1..request /\ kinds[r] \in Kind
    BY DEF TypeOK, Request
  <2>3. PICK k \in {kinds[r], "refusal"} :
          /\ sent' = sent \o Frame(r, k)
          /\ k \notin {"read", "refusal"} => r \in applied'
    BY <2>1 DEF Answers, GripperRefuses
  <2>4. UNCHANGED <<request, late, kinds, line, reply>> /\ device' = {} /\ applied \subseteq applied'
    BY <2>1 DEF Answers, GripperRefuses
  <2>5. Trusted \subseteq Trusted'
    BY <2>4, TrustGrows
  <2>6. PartsOf(r, k) \subseteq Trusted'
    BY <2>2, <2>3, <2>4 DEF Trusted, PartsOf
  <2>7. Frame(r, k) \in Seq(Trusted')
    <3>1. Frame(r, k) \in Seq(PartsOf(r, k))
      BY <2>2, FrameParts
    <3> QED
      BY <2>6, <3>1, SeqMonotonic
  <2>8. sent \in Seq(Trusted') /\ line \in Seq(Trusted')
    BY <2>5, SeqMonotonic
  <2>9. sent \o Frame(r, k) \in Seq(Trusted')
    BY <2>7, <2>8, ConcatProperties
  <2> QED
    BY <2>3, <2>4, <2>5, <2>8, <2>9
<1>5. CASE (\E b \in BOOLEAN : Delivers(b)) \/ Loses
  <2>1. Head(sent) \in Trusted /\ Tail(sent) \in Seq(Trusted)
    BY <1>5, HeadTailProperties DEF Delivers, Loses
  <2>2. UNCHANGED <<request, late, kinds, applied, device, reply>> /\ sent' = Tail(sent)
    BY <1>5 DEF Delivers, Loses
  <2>3. Trusted' = Trusted
    BY <2>2 DEF Trusted
  <2>4. line' \in Seq(Trusted)
    <3>1. CASE Loses
      BY <3>1 DEF Loses
    <3>2. CASE \E b \in BOOLEAN : Delivers(b)
      <4>1. PICK b \in BOOLEAN : Delivers(b)
        BY <3>2
      <4>2. [Head(sent) EXCEPT !.intact = b] \in Trusted
        BY <2>1, ArrivedPart DEF Trusted
      <4> QED
        BY <4>1, <4>2, AppendProperties DEF Delivers
    <3> QED
      BY <1>5, <3>1, <3>2
  <2> QED
    BY <2>1, <2>2, <2>3, <2>4
<1>6. CASE LinkDone \/ UNCHANGED linkVars
  BY <1>6 DEF LinkDone, linkVars, Trusted
<1> QED
  BY <1>1, <1>2, <1>3, <1>4, <1>5, <1>6 DEF LinkNext

(* What the client has checked.                                            *)
LEMMA HeadStep == TypeOK /\ HeadChecked /\ [LinkNext]_linkVars => HeadChecked'
<1> SUFFICES ASSUME TypeOK, HeadChecked, [LinkNext]_linkVars PROVE HeadChecked'
  OBVIOUS
<1> USE DEF HeadChecked, clientVars
<1>1. CASE \E k \in Kind : Begin(k)
  <2>1. stage' = "send" /\ result' = "none" /\ request' = request + 1 /\ request \in Nat
    BY <1>1 DEF Begin, TypeOK
  <2> QED
    BY <2>1
<1>2. CASE Send \/ SendFails \/ TimesOut
  BY <1>2 DEF Send, SendFails, TimesOut, Ends
<1>3. CASE HeadAccepted
  <2>1. Head(line) \in Part
    BY <1>3, HeadTailProperties DEF HeadAccepted, TypeOK
  <2> QED
    BY <1>3, <2>1 DEF HeadAccepted, HeadFits
<1>4. CASE TailAccepted
  <2>1. PICK h \in Part : reply = {h} /\ h.kind = kind
    BY <1>4 DEF TailAccepted
  <2>2. h.kind = Head(line).kind
    BY <1>4, <2>1 DEF TailAccepted, TailFits
  <2>3. reply' = {h, Head(line)} /\ stage' = "idle" /\ UNCHANGED kind
    BY <1>4, <2>1 DEF TailAccepted, Ends
  <2> QED
    BY <2>1, <2>2, <2>3
<1>5. CASE HeadRejected \/ TailRejected
  BY <1>5 DEF HeadRejected, TailRejected, Ends
<1>6. CASE \/ \E r \in device : Answers(r) \/ GripperRefuses(r)
           \/ \E b \in BOOLEAN : Delivers(b)
           \/ Loses
  BY <1>6 DEF Answers, GripperRefuses, Delivers, Loses
<1>7. CASE LinkDone \/ UNCHANGED linkVars
  BY <1>7 DEF LinkDone, linkVars
<1> QED
  BY <1>1, <1>2, <1>3, <1>4, <1>5, <1>6, <1>7 DEF LinkNext

-----------------------------------------------------------------------------
(* The invariant holds throughout.                                         *)
LEMMA Invariant == LinkSpec => []IInv
<1>1. LinkInit => IInv
  <2> SUFFICES ASSUME LinkInit PROVE IInv
    OBVIOUS
  <2> USE DEF LinkInit
  <2>1. kinds \in [1..request -> Kind]
    <3>1. kinds \in Seq(Kind) /\ Len(kinds) = 0
      BY EmptySeq
    <3> QED
      BY <3>1, LenProperties
  <2>2. TypeOK
    BY <2>1, EmptySeq DEF TypeOK, Kind
  <2>3. LineTrusted
    BY EmptySeq DEF LineTrusted
  <2> QED
    BY <2>2, <2>3 DEF IInv, HeadChecked
<1>2. IInv /\ [LinkNext]_linkVars => IInv'
  BY TypeStep, LineStep, HeadStep DEF IInv
<1> QED
  BY <1>1, <1>2, PTL DEF LinkSpec

(* A transaction succeeds only with parts of the answer to it or to one    *)
(* that was still under way when it began, of its kind, and only after the *)
(* gripper wrote the registers: for any number of transactions.            *)
THEOREM OwnAnswers == LinkSpec => []AnswerIsOwn
<1>1. IInv => AnswerIsOwn
  <2> SUFFICES ASSUME IInv, result = "ok", NEW p \in reply
               PROVE  /\ p.req = request \/ p.req \in late
                      /\ kinds[p.req] = kind
                      /\ kind # "read" => p.req \in applied
    BY DEF AnswerIsOwn
  <2>1. p.kind = kind /\ kind # "refusal"
    BY DEF IInv, HeadChecked, TypeOK, Kind
  <2>2. p \in Trusted
    BY DEF IInv, LineTrusted
  <2> QED
    BY <2>1, <2>2 DEF Trusted
<1> QED
  BY <1>1, Invariant, PTL
=============================================================================
