------------------------------ MODULE PhoneProofs ------------------------------
(***************************************************************************)
(* What phones do to a node: assisted claiming, for any node ids, any      *)
(* number of fragments, commands, failures and restarts; and the services  *)
(* a phone reaches nearby, for any number of fragments, versions of the    *)
(* data, calls and failures.                                               *)
(***************************************************************************)
EXTENDS AssistedClaim, LocalServices, TLAPS

-----------------------------------------------------------------------------
(* The inductive invariant.  While the request is sent, the fragments below *)
(* the offset were; and a request that was sent is for the id in RAM.       *)
SentSoFar ==
    /\ state = InitDone =>
         /\ csr # None /\ csr = nodeId
         /\ offset \in 1 .. NumFrags - 1 /\ sent = 0 .. offset - 1
    /\ state \in {Verify, VerifyDone} /\ csr # None => sent = Frag /\ csr = nodeId

(* The certificate the phone has is for the request.                        *)
CertOfRequest == cert # None => cert = csr /\ cert = nodeId

(* The id in RAM is the one that was saved, or the node has none.           *)
IdSaved ==
    "id" \notin spoiled =>
        \/ nodeId = nvsId
        \/ nodeId = Mac /\ nvsId = None

(* A node that has a certificate was claimed: no command comes without      *)
(* being late, and none at all once the agent took note.                    *)
Claimed ==
    /\ nvsCert # None => bit \/ freed
    /\ state = VerifyDone => nvsCert # None
    /\ task \in {"network", "running"} => freed /\ nvsCert # None
    /\ client # None => freed

(* When no attempt failed, the handler hears of the success of the claim    *)
(* before it is unregistered, and the will is for the id of the certificate.*)
Has(s, what) == \E i \in 1 .. Len(s) : s[i] = what

Posted(what) == Has(events, what)

Told ==
    /\ "failed" \notin spoiled =>
         /\ ~Posted("failed")
         /\ nvsCert = None => handler /\ ~Posted("successful")
    /\ spoiled = {} /\ nvsCert # None =>
         lwt = nodeId \/ (handler /\ Posted("successful"))

IInv == /\ TypeOK /\ SentSoFar /\ CertOfRequest /\ IdSaved /\ Claimed /\ Told
        /\ CertificateIsForNode /\ ClientIsClaimed

Event == {"started", "successful", "failed"}

LEMMA HasAppend ==
  ASSUME NEW s \in Seq(Event), NEW e \in Event, NEW what
  PROVE  /\ Append(s, e) \in Seq(Event)
         /\ Has(Append(s, e), what) <=> Has(s, what) \/ what = e
<1>1. /\ Append(s, e) \in Seq(Event) /\ Len(Append(s, e)) = Len(s) + 1
      /\ Append(s, e)[Len(s) + 1] = e /\ Len(s) \in Nat
      /\ \A i \in 1 .. Len(s) : Append(s, e)[i] = s[i]
  OBVIOUS
<1>2. Has(s, what) => Has(Append(s, e), what)
  BY <1>1 DEF Has
<1>3. what = e => Has(Append(s, e), what)
  <2>1. Len(s) + 1 \in 1 .. Len(Append(s, e))
    BY <1>1
  <2> QED
    BY <1>1, <2>1 DEF Has
<1>4. ASSUME Has(Append(s, e), what), what # e PROVE Has(s, what)
  <2>1. PICK i \in 1 .. Len(Append(s, e)) : Append(s, e)[i] = what
    BY <1>4 DEF Has
  <2>2. i \in 1 .. Len(s)
    BY <1>1, <1>4, <2>1
  <2> QED
    BY <1>1, <2>1, <2>2 DEF Has
<1> QED
  BY <1>1, <1>2, <1>3, <1>4

LEMMA HasTail ==
  ASSUME NEW s \in Seq(Event), s # <<>>, NEW what
  PROVE  /\ Tail(s) \in Seq(Event) /\ Head(s) \in Event
         /\ Has(Tail(s), what) => Has(s, what)
         /\ Has(s, what) => Has(Tail(s), what) \/ what = Head(s)
         /\ Has(s, Head(s))
<1>1. /\ Tail(s) \in Seq(Event) /\ Len(Tail(s)) = Len(s) - 1 /\ Head(s) = s[1]
      /\ Len(s) \in Nat \ {0} /\ Head(s) \in Event
      /\ \A i \in 1 .. Len(s) - 1 : Tail(s)[i] = s[i + 1]
  OBVIOUS
<1>2. Has(Tail(s), what) => Has(s, what)
  BY <1>1 DEF Has
<1>3. ASSUME Has(s, what), what # Head(s) PROVE Has(Tail(s), what)
  <2>1. PICK i \in 1 .. Len(s) : s[i] = what
    BY <1>3 DEF Has
  <2>2. i # 1 /\ i - 1 \in 1 .. Len(s) - 1 /\ (i - 1) + 1 = i
    BY <1>1, <1>3, <2>1
  <2>3. Tail(s)[i - 1] = what
    BY <1>1, <2>1, <2>2
  <2> QED
    BY <1>1, <2>2, <2>3 DEF Has
<1>4. Has(s, Head(s))
  BY <1>1 DEF Has
<1> QED
  BY <1>1, <1>2, <1>3, <1>4

LEMMA EventsType == TypeOK => events \in Seq(Event)
BY DEF TypeOK, Event

LEMMA States ==
  /\ Pk = 1 /\ Initiated = 2 /\ InitDone = 3 /\ Verify = 4 /\ VerifyDone = 5
BY DEF Pk, Initiated, InitDone, Verify, VerifyDone

-----------------------------------------------------------------------------
(* The commands.                                                            *)

(* A claim that begins anew keeps its marks, and is late behind the end.    *)
LEMMA Marks ==
  ASSUME TypeOK, NEW marks \in SUBSET {"late", "failed", "id"}, spoiled' = Spoiled(marks)
  PROVE  /\ spoiled' \subseteq {"late", "failed", "id"}
         /\ spoiled \subseteq spoiled' /\ marks \subseteq spoiled'
         /\ bit = TRUE => "late" \in spoiled'
BY DEF Spoiled, TypeOK

(* A command finds the claim data: there is no client yet, and a node that  *)
(* has a certificate was signalled the end.                                 *)
LEMMA CommandFinds ==
  ASSUME IInv, Command
  PROVE  /\ ~freed /\ ~freed' /\ client = None /\ client' = None
         /\ task \notin {"network", "running"}
         /\ nvsCert # None => bit = TRUE
         /\ UNCHANGED <<freed, task, needClaim, claimDone, handler, lwt, client>>
BY DEF IInv, Command, Claimed, core, TypeOK

LEMMA SentFragment ==
  ASSUME TypeOK, NEW at \in Frag, NEW id \in NodeId, SendFragment(at, id),
         at > 0 => sent = 0 .. at - 1
  PROVE  /\ offset' \in 0 .. NumFrags /\ sent' \subseteq Frag /\ got' \subseteq Frag
         /\ state' \in {InitDone, Verify} /\ cert' \in {id, None}
         /\ state' = InitDone =>
              offset' \in 1 .. NumFrags - 1 /\ sent' = 0 .. offset' - 1
         /\ state' = Verify => sent' = Frag
<1>1. at \in Nat /\ at < NumFrags /\ NumFrags \in Nat \ {0} /\ offset' = at + 1
  BY ClaimAssumption DEF Frag, SendFragment
<1>2. sent' = 0 .. at
  <2>1. CASE at = 0
    BY <2>1 DEF SendFragment
  <2>2. CASE at > 0
    BY <1>1, <2>2 DEF SendFragment
  <2> QED
    BY <1>1, <2>1, <2>2
<1>3. got' \subseteq Frag /\ cert' \in {id, None}
  BY DEF SendFragment, TypeOK
<1>4. CASE at + 1 = NumFrags
  <2>1. state' = Verify
    BY <1>4 DEF SendFragment
  <2>2. sent' = Frag
    BY <1>1, <1>2, <1>4 DEF Frag
  <2> QED
    BY <1>1, <1>3, <1>4, <2>1, <2>2, States
<1>5. CASE at + 1 # NumFrags
  <2>1. state' = InitDone
    BY <1>5 DEF SendFragment
  <2>2. offset' \in 1 .. NumFrags - 1 /\ sent' = 0 .. offset' - 1
    BY <1>1, <1>2, <1>5
  <2>3. sent' \subseteq Frag
    BY <1>1, <1>2 DEF Frag
  <2> QED
    BY <1>1, <1>3, <2>1, <2>2, <2>3, States
<1> QED
  BY <1>4, <1>5

LEMMA FirstFrag == 0 \in Frag /\ NumFrags - 1 \in Frag
BY ClaimAssumption DEF Frag

LEMMA StartKeeps ==
  ASSUME IInv, Start
  PROVE  IInv'
<1>1. /\ TypeOK /\ SentSoFar /\ CertOfRequest /\ IdSaved /\ Claimed /\ Told
      /\ CertificateIsForNode /\ Command
  BY DEF IInv, Start
<1>2. /\ state' = Initiated /\ offset' = 0 /\ payload' = [payload EXCEPT ![0] = Request]
      /\ events' = Append(events, "started") /\ got' = {} /\ cert' = None /\ sent' = {}
      /\ spoiled' = Spoiled({}) /\ UNCHANGED <<nvsId, nvsCert, nodeId, csr, bit>>
  BY DEF Start, nvs
<1>3. /\ ~freed /\ ~freed' /\ client = None /\ client' = None
      /\ task \notin {"network", "running"} /\ (nvsCert # None => bit = TRUE)
      /\ UNCHANGED <<freed, task, needClaim, claimDone, handler, lwt, client>>
  BY <1>1, CommandFinds
<1>4. /\ spoiled' \subseteq {"late", "failed", "id"} /\ spoiled \subseteq spoiled'
      /\ bit = TRUE => "late" \in spoiled'
  BY <1>1, <1>2, Marks
<1>5. TypeOK'
  <2>1. payload' \in [Frag -> Content]
    BY <1>1, <1>2, FirstFrag DEF TypeOK, Content
  <2>2. events' \in Seq({"started", "successful", "failed"})
    BY <1>1, <1>2, EventsType, HasAppend DEF Event
  <2>3. offset' \in 0 .. NumFrags /\ state' \in Pk .. VerifyDone
    BY <1>2, States, ClaimAssumption
  <2> QED
    BY <1>1, <1>2, <1>3, <1>4, <2>1, <2>2, <2>3 DEF TypeOK
<1>6. SentSoFar' /\ CertOfRequest'
  BY <1>2, States DEF SentSoFar, CertOfRequest
<1>7. IdSaved'
  BY <1>1, <1>2, <1>4 DEF IdSaved
<1>8. Claimed'
  BY <1>1, <1>2, <1>3, States DEF Claimed
<1>9. Told'
  <2>1. /\ Posted("failed")' <=> Posted("failed")
        /\ Posted("successful")' <=> Posted("successful")
    BY <1>1, <1>2, EventsType, HasAppend DEF Posted, Event
  <2> QED
    BY <1>1, <1>2, <1>3, <1>4, <2>1 DEF Told
<1>10. CertificateIsForNode' /\ ClientIsClaimed'
  BY <1>1, <1>2, <1>3, <1>4 DEF CertificateIsForNode, ClientIsClaimed
<1> QED
  BY <1>5, <1>6, <1>7, <1>8, <1>9, <1>10 DEF IInv

(* What a request for a new id, or the rest of a request, leaves to the     *)
(* invariant, whichever way it ends.                                        *)
LEMMA RequestKeeps ==
  ASSUME IInv, Command, spoiled' = Spoiled({}) \/ spoiled' = Spoiled({"id"}),
         nodeId' \in NodeId, nvsId' \in NodeId \cup {None},
         "id" \notin spoiled' => nodeId' = nvsId' \/ UNCHANGED <<nodeId, nvsId>>,
         csr' \in NodeId \cup {None}, cert' \in NodeId \cup {None},
         cert' # None => cert' = csr' /\ cert' = nodeId',
         payload' \in [Frag -> Content], offset' \in 0 .. NumFrags,
         got' \cup sent' \subseteq Frag, state' \in Pk .. VerifyDone,
         state' = VerifyDone => state = VerifyDone,
         SentSoFar', UNCHANGED <<nvsCert, bit, events>>
  PROVE  IInv'
<1>1. /\ TypeOK /\ CertOfRequest /\ IdSaved /\ Claimed /\ Told
      /\ CertificateIsForNode
  BY DEF IInv
<1>2. /\ ~freed /\ ~freed' /\ client = None /\ client' = None
      /\ task \notin {"network", "running"} /\ (nvsCert # None => bit = TRUE)
      /\ UNCHANGED <<freed, task, needClaim, claimDone, handler, lwt, client>>
  BY CommandFinds
<1>3. /\ spoiled' \subseteq {"late", "failed", "id"} /\ spoiled \subseteq spoiled'
      /\ bit = TRUE => "late" \in spoiled'
  BY <1>1, Marks
<1>4. TypeOK'
  BY <1>1, <1>2, <1>3 DEF TypeOK
<1>5. CertOfRequest'
  BY DEF CertOfRequest
<1>6. IdSaved'
  BY <1>1, <1>3 DEF IdSaved
<1>7. Claimed'
  BY <1>1, <1>2 DEF Claimed
<1>8. nvsCert' = nvsCert /\ (nvsCert # None => "late" \in spoiled')
  BY <1>2, <1>3
<1>9. Told'
  <2>1. /\ Posted("failed")' <=> Posted("failed")
        /\ Posted("successful")' <=> Posted("successful")
    BY DEF Posted
  <2> QED
    BY <1>1, <1>2, <1>3, <1>8, <2>1 DEF Told
<1>10. CertificateIsForNode' /\ ClientIsClaimed'
  BY <1>2, <1>8 DEF CertificateIsForNode, ClientIsClaimed
<1> QED
  BY <1>4, <1>5, <1>6, <1>7, <1>9, <1>10 DEF IInv

LEMMA InitResponseKeeps ==
  ASSUME IInv, NEW id \in NodeId, InitResponse(id)
  PROVE  IInv'
<1>1. /\ Command /\ nodeId' = id /\ csr' = id /\ payload' = [k \in Frag |-> Request]
      /\ SendFragment(0, id) /\ UNCHANGED <<nvsCert, bit, events>>
      /\ \/ nvsId' = id /\ spoiled' = Spoiled({})
         \/ spoiled' = Spoiled({"id"}) /\ UNCHANGED nvsId
  BY DEF InitResponse
<1>2. TypeOK
  BY DEF IInv
<1>3. /\ offset' \in 0 .. NumFrags /\ sent' \subseteq Frag /\ got' \subseteq Frag
      /\ state' \in {InitDone, Verify} /\ cert' \in {id, None}
      /\ state' = InitDone => offset' \in 1 .. NumFrags - 1 /\ sent' = 0 .. offset' - 1
      /\ state' = Verify => sent' = Frag
  BY <1>1, <1>2, FirstFrag, SentFragment
<1>4. SentSoFar'
  BY <1>1, <1>3, ClaimAssumption, States DEF SentSoFar
<1>5. "id" \notin spoiled' => nodeId' = nvsId'
  BY <1>1, <1>2, Marks
<1>6. nvsId' \in NodeId \cup {None} /\ payload' \in [Frag -> Content]
  BY <1>1, <1>2 DEF TypeOK, Content
<1>7. state' \in Pk .. VerifyDone /\ state' # VerifyDone
  BY <1>3, States
<1>8. spoiled' = Spoiled({}) \/ spoiled' = Spoiled({"id"})
  BY <1>1
<1> QED
  BY <1>1, <1>3, <1>4, <1>5, <1>6, <1>7, <1>8, RequestKeeps

LEMMA InitFailsKeeps ==
  ASSUME IInv, NEW id \in NodeId, InitFails(id)
  PROVE  IInv'
<1>1. /\ Command /\ nodeId' = id /\ nvsId' = id /\ csr' = None /\ cert' = None
      /\ payload' = Blank /\ spoiled' = Spoiled({}) /\ state \notin {Pk, InitDone}
      /\ UNCHANGED <<nvsCert, state, offset, bit, events, got, sent>>
  BY DEF InitFails
<1>2. TypeOK
  BY DEF IInv
<1>3. SentSoFar'
  BY <1>1 DEF SentSoFar
<1>4. payload' \in [Frag -> Content]
  BY <1>1 DEF Blank, Content
<1>5. /\ offset' \in 0 .. NumFrags /\ got' \cup sent' \subseteq Frag
      /\ state' \in Pk .. VerifyDone
  BY <1>1, <1>2 DEF TypeOK
<1> QED
  BY <1>1, <1>3, <1>4, <1>5, RequestKeeps

LEMMA InitMoreKeeps ==
  ASSUME IInv, InitMore
  PROVE  IInv'
<1>1. /\ Command /\ state = InitDone /\ SendFragment(offset, csr) /\ spoiled' = Spoiled({})
      /\ UNCHANGED <<nvsId, nvsCert, nodeId, payload, csr, bit, events>>
  BY DEF InitMore, nvs
<1>2. TypeOK /\ SentSoFar
  BY DEF IInv
<1>3. csr \in NodeId /\ csr = nodeId /\ offset \in Frag /\ sent = 0 .. offset - 1
  <2>1. /\ csr # None /\ csr = nodeId
        /\ offset \in 1 .. NumFrags - 1 /\ sent = 0 .. offset - 1
    BY <1>1, <1>2 DEF SentSoFar
  <2>2. csr \in NodeId
    BY <1>2, <2>1 DEF TypeOK
  <2>3. offset \in Frag
    BY <2>1, ClaimAssumption DEF Frag
  <2> QED
    BY <2>1, <2>2, <2>3
<1>4. /\ offset' \in 0 .. NumFrags /\ sent' \subseteq Frag /\ got' \subseteq Frag
      /\ state' \in {InitDone, Verify} /\ cert' \in {csr, None}
      /\ state' = InitDone => offset' \in 1 .. NumFrags - 1 /\ sent' = 0 .. offset' - 1
      /\ state' = Verify => sent' = Frag
  BY <1>1, <1>2, <1>3, SentFragment
<1>5. SentSoFar'
  BY <1>1, <1>3, <1>4, ClaimAssumption, States DEF SentSoFar
<1>6. state' \in Pk .. VerifyDone /\ state' # VerifyDone
  BY <1>4, States
<1>7. nvsId' \in NodeId \cup {None} /\ payload' \in [Frag -> Content]
  BY <1>1, <1>2 DEF TypeOK
<1> QED
  BY <1>1, <1>3, <1>4, <1>5, <1>6, <1>7, RequestKeeps

LEMMA VerifyFragmentKeeps ==
  ASSUME IInv, NEW k \in Frag, VerifyFragment(k)
  PROVE  IInv'
<1>1. /\ TypeOK /\ SentSoFar /\ CertOfRequest /\ IdSaved /\ Claimed /\ Told
      /\ CertificateIsForNode /\ Command
      /\ state \in {Verify, VerifyDone} /\ cert # None
      /\ payload' = [(IF k = 0 THEN Blank ELSE payload) EXCEPT ![k] = cert]
      /\ UNCHANGED <<nvsId, nodeId, offset, csr, got, cert, sent>>
  BY DEF IInv, VerifyFragment, phone
<1>2. /\ ~freed /\ ~freed' /\ client = None /\ client' = None
      /\ task \notin {"network", "running"}
      /\ UNCHANGED <<freed, task, needClaim, claimDone, handler, lwt, client>>
  BY <1>1, CommandFinds
<1>3. cert = nodeId /\ cert \in NodeId /\ ("id" \notin spoiled => cert = nvsId)
  BY <1>1, ClaimAssumption DEF CertOfRequest, IdSaved, TypeOK
<1>4. payload' \in [Frag -> Content]
  BY <1>1, <1>3 DEF TypeOK, Content, Blank
<1>5. CertOfRequest'
  BY <1>1 DEF CertOfRequest
<1>6. ClientIsClaimed'
  BY <1>2 DEF ClientIsClaimed
<1>7. CASE UNCHANGED <<nvsCert, state, bit, events, spoiled>>
  <2>1. TypeOK'
    BY <1>1, <1>2, <1>4, <1>7 DEF TypeOK
  <2>2. SentSoFar' /\ IdSaved' /\ Claimed' /\ Told' /\ CertificateIsForNode'
    BY <1>1, <1>2, <1>7
       DEF SentSoFar, IdSaved, Claimed, Told, Posted, CertificateIsForNode
  <2> QED
    BY <1>5, <1>6, <2>1, <2>2 DEF IInv
<1>8. CASE /\ nvsCert' = cert /\ state' = VerifyDone /\ bit' = TRUE
           /\ events' = Append(events, "successful") /\ UNCHANGED spoiled
  <2>1. /\ events' \in Seq(Event)
        /\ Posted("failed")' <=> Posted("failed")
        /\ Posted("successful")'
    BY <1>1, <1>8, EventsType, HasAppend DEF Posted, Event
  <2>2. TypeOK'
    <3>1. state' \in Pk .. VerifyDone /\ nvsCert' \in NodeId \cup {None}
      BY <1>3, <1>8, States
    <3> QED
      BY <1>1, <1>2, <1>4, <1>8, <2>1, <3>1 DEF TypeOK, Event
  <2>3. SentSoFar'
    BY <1>1, <1>8, States DEF SentSoFar
  <2>4. IdSaved' /\ CertificateIsForNode'
    BY <1>1, <1>3, <1>8 DEF IdSaved, CertificateIsForNode
  <2>5. Claimed'
    BY <1>2, <1>3, <1>8, ClaimAssumption DEF Claimed
  <2>6. Told'
    BY <1>1, <1>2, <1>3, <1>8, <2>1, ClaimAssumption DEF Told
  <2> QED
    BY <1>5, <1>6, <2>2, <2>3, <2>4, <2>5, <2>6 DEF IInv
<1>9. CASE /\ bit' = TRUE /\ events' = Append(events, "failed")
           /\ spoiled' = spoiled \cup {"failed"} /\ UNCHANGED <<nvsCert, state>>
  <2>1. events' \in Seq(Event)
    BY <1>1, <1>9, EventsType, HasAppend DEF Event
  <2>2. TypeOK'
    BY <1>1, <1>2, <1>4, <1>9, <2>1 DEF TypeOK, Event
  <2>3. SentSoFar' /\ IdSaved' /\ Claimed' /\ Told' /\ CertificateIsForNode'
    BY <1>1, <1>2, <1>9 DEF SentSoFar, IdSaved, Claimed, Told, CertificateIsForNode
  <2> QED
    BY <1>5, <1>6, <2>2, <2>3 DEF IInv
<1> QED
  BY <1>7, <1>8, <1>9 DEF VerifyFragment

LEMMA AbortKeeps ==
  ASSUME IInv, Abort
  PROVE  IInv'
<1>1. /\ TypeOK /\ IdSaved /\ Claimed /\ CertificateIsForNode /\ Command
      /\ payload' = Blank /\ offset' = 0 /\ state' = Pk /\ bit' = TRUE
      /\ events' = Append(events, "failed") /\ spoiled' = spoiled \cup {"failed"}
      /\ got' = {} /\ cert' = None
      /\ UNCHANGED <<nvsId, nvsCert, nodeId, csr, sent>>
  BY DEF IInv, Abort, nvs
<1>2. /\ ~freed /\ ~freed' /\ client = None /\ client' = None
      /\ task \notin {"network", "running"}
      /\ UNCHANGED <<freed, task, needClaim, claimDone, handler, lwt, client>>
  BY <1>1, CommandFinds
<1>3. TypeOK'
  <2>1. events' \in Seq(Event)
    BY <1>1, EventsType, HasAppend DEF Event
  <2>2. /\ payload' \in [Frag -> Content] /\ offset' \in 0 .. NumFrags
        /\ state' \in Pk .. VerifyDone
    BY <1>1, ClaimAssumption, States DEF Blank, Content
  <2> QED
    BY <1>1, <1>2, <2>1, <2>2 DEF TypeOK, Event
<1>4. SentSoFar' /\ CertOfRequest'
  BY <1>1, States DEF SentSoFar, CertOfRequest
<1>5. IdSaved' /\ Claimed' /\ Told' /\ CertificateIsForNode' /\ ClientIsClaimed'
  BY <1>1, <1>2, States
     DEF IdSaved, Claimed, Told, CertificateIsForNode, ClientIsClaimed
<1> QED
  BY <1>3, <1>4, <1>5 DEF IInv

-----------------------------------------------------------------------------
(* The node.                                                                *)
LEMMA ClaimEndsKeeps ==
  ASSUME IInv, ClaimEnds
  PROVE  IInv'
<1>1. /\ TypeOK /\ SentSoFar /\ CertOfRequest /\ IdSaved /\ Claimed /\ Told
      /\ CertificateIsForNode /\ ClientIsClaimed
      /\ freed' = TRUE /\ bit' = FALSE
      /\ task' = IF state = VerifyDone THEN "network" ELSE "gave up"
      /\ UNCHANGED <<nvsId, nvsCert, nodeId, state, payload, offset, csr, needClaim,
                     claimDone, handler, lwt, client, events, got, cert, sent, spoiled>>
  BY DEF IInv, ClaimEnds, nvs, phone, history
<1>2. TypeOK'
  BY <1>1 DEF TypeOK
<1>3. /\ SentSoFar' /\ CertOfRequest' /\ IdSaved' /\ Told' /\ CertificateIsForNode'
      /\ ClientIsClaimed'
  BY <1>1
     DEF SentSoFar, CertOfRequest, IdSaved, Told, Posted, CertificateIsForNode,
         ClientIsClaimed
<1>4. Claimed'
  BY <1>1 DEF Claimed
<1> QED
  BY <1>2, <1>3, <1>4 DEF IInv

(* The MQTT client comes up: the event of the claim was handled, so that    *)
(* the will is for the id of the certificate.                               *)
LEMMA NetworkUpKeeps ==
  ASSUME IInv, NetworkUp
  PROVE  IInv'
<1>1. /\ TypeOK /\ SentSoFar /\ CertOfRequest /\ IdSaved /\ Claimed /\ Told
      /\ CertificateIsForNode /\ ClientIsClaimed
      /\ task = "network" /\ events = <<>> /\ task' = "running"
      /\ \/ client' = [id |-> nodeId, will |-> lwt]
         \/ client' = client
      /\ needClaim' = FALSE /\ claimDone' = FALSE
      /\ UNCHANGED <<nvsId, nvsCert, nodeId, state, payload, offset, csr, bit, freed,
                     handler, lwt, events, got, cert, sent, spoiled>>
  BY DEF IInv, NetworkUp, nvs, claim, phone, history
<1>2. TypeOK'
  BY <1>1 DEF TypeOK
<1>3. /\ SentSoFar' /\ CertOfRequest' /\ IdSaved' /\ Told' /\ CertificateIsForNode'
  BY <1>1 DEF SentSoFar, CertOfRequest, IdSaved, Told, Posted, CertificateIsForNode
<1>4. Claimed'
  BY <1>1 DEF Claimed
<1>5. ClientIsClaimed'
  <2>1. spoiled = {} => nodeId = nvsCert /\ lwt = nvsCert
    <3>1. nvsCert # None /\ ~Posted("successful")
      BY <1>1 DEF Claimed, Posted, Has
    <3> QED
      BY <1>1, <3>1 DEF CertificateIsForNode, Told
  <2> QED
    BY <1>1, <2>1 DEF ClientIsClaimed
<1> QED
  BY <1>2, <1>3, <1>4, <1>5 DEF IInv

LEMMA HandleEventKeeps ==
  ASSUME IInv, HandleEvent
  PROVE  IInv'
<1>1. /\ TypeOK /\ SentSoFar /\ CertOfRequest /\ IdSaved /\ Claimed /\ Told
      /\ CertificateIsForNode /\ ClientIsClaimed
      /\ events # <<>> /\ events' = Tail(events)
      /\ handler' = (handler /\ Head(events) = "started")
      /\ UNCHANGED <<nvsId, nvsCert, nodeId, state, payload, offset, csr, bit, freed,
                     task, client, got, cert, sent, spoiled>>
  BY DEF IInv, HandleEvent, nvs, claim, phone, history
<1>2. /\ handler /\ Head(events) = "successful" => lwt' = nodeId
      /\ ~(handler /\ Head(events) = "successful") => lwt' = lwt
      /\ needClaim' \in BOOLEAN /\ claimDone' \in BOOLEAN /\ lwt' \in NodeId \cup {Mac}
  BY <1>1 DEF HandleEvent, TypeOK
<1>3. /\ events' \in Seq(Event) /\ Head(events) \in Event
      /\ \A what \in Event : Posted(what)' => Posted(what)
      /\ \A what \in Event : Posted(what) => Posted(what)' \/ what = Head(events)
      /\ Posted(Head(events))
  BY <1>1, EventsType, HasTail DEF Posted
<1>4. TypeOK'
  BY <1>1, <1>2, <1>3 DEF TypeOK, Event
<1>5. /\ SentSoFar' /\ CertOfRequest' /\ IdSaved' /\ Claimed' /\ CertificateIsForNode'
      /\ ClientIsClaimed'
  BY <1>1
     DEF SentSoFar, CertOfRequest, IdSaved, Claimed, CertificateIsForNode,
         ClientIsClaimed
<1>6. Told'
  <2>1. "failed" \notin spoiled => ~Posted("failed")'
    BY <1>1, <1>3 DEF Told, Event
  <2>2. ASSUME "failed" \notin spoiled, nvsCert = None
        PROVE  handler' /\ ~Posted("successful")'
    <3>1. handler /\ ~Posted("successful") /\ ~Posted("failed")
      BY <1>1, <2>2 DEF Told
    <3>2. Head(events) = "started"
      BY <1>3, <3>1 DEF Event
    <3>3. ~Posted("successful")'
      BY <1>3, <3>1 DEF Event
    <3> QED
      BY <1>1, <3>1, <3>2, <3>3
  <2>3. ASSUME spoiled = {}, nvsCert # None
        PROVE  lwt' = nodeId \/ (handler' /\ Posted("successful")')
    <3>1. ~Posted("failed")
      BY <1>1, <2>3 DEF Told
    <3>2. Head(events) \in {"started", "successful"}
      BY <1>3, <3>1 DEF Event
    <3>3. lwt = nodeId \/ (handler /\ Posted("successful"))
      BY <1>1, <2>3 DEF Told
    <3>4. CASE lwt = nodeId
      BY <1>2, <3>4
    <3>5. CASE handler /\ Posted("successful") /\ Head(events) = "successful"
      BY <1>2, <3>5
    <3>6. CASE handler /\ Posted("successful") /\ Head(events) = "started"
      <4>1. Posted("successful")'
        BY <1>3, <3>6 DEF Event
      <4> QED
        BY <1>1, <3>6, <4>1
    <3> QED
      BY <3>2, <3>3, <3>4, <3>5, <3>6
  <2> QED
    BY <1>1, <2>1, <2>2, <2>3 DEF Told
<1> QED
  BY <1>4, <1>5, <1>6 DEF IInv

LEMMA RebootKeeps ==
  ASSUME IInv, Reboot
  PROVE  IInv'
<1> DEFINE id == IF nvsId = None THEN Mac ELSE nvsId
<1>1. /\ TypeOK /\ IdSaved /\ Claimed /\ CertificateIsForNode
      /\ nodeId' = id /\ lwt' = id
      /\ needClaim' = (nvsCert = None) /\ handler' = (nvsCert = None)
      /\ freed' = (nvsCert # None)
      /\ task' = IF nvsCert # None THEN "network" ELSE "wait"
      /\ client' = IF nvsCert # None THEN [id |-> id, will |-> id] ELSE None
      /\ claimDone' = FALSE /\ state' = Pk /\ payload' = Blank /\ offset' = 0
      /\ csr' = None /\ bit' = FALSE /\ events' = <<>>
      /\ got' = {} /\ cert' = None /\ sent' = {}
      /\ spoiled' = spoiled \ {"failed"} /\ UNCHANGED <<nvsId, nvsCert>>
  BY DEF IInv, Reboot, Boot, nvs
<1>2. id \in NodeId \cup {Mac} /\ (nvsId # None => id = nvsId)
      /\ (nvsId = None => id = Mac)
  BY <1>1 DEF TypeOK
<1> HIDE DEF id
<1>3. TypeOK'
  <2>1. /\ payload' \in [Frag -> Content] /\ offset' \in 0 .. NumFrags
        /\ state' \in Pk .. VerifyDone
    BY <1>1, ClaimAssumption, States DEF Blank, Content
  <2>2. events' \in Seq({"started", "successful", "failed"})
    BY <1>1
  <2> QED
    BY <1>1, <1>2, <2>1, <2>2 DEF TypeOK
<1>4. SentSoFar' /\ CertOfRequest'
  BY <1>1, States DEF SentSoFar, CertOfRequest
<1>5. IdSaved'
  BY <1>1, <1>2 DEF IdSaved
<1>6. Claimed'
  <2>1. CASE nvsCert = None
    BY <1>1, <2>1, States DEF Claimed
  <2>2. CASE nvsCert # None
    <3>1. freed' = TRUE
      BY <1>1, <2>2
    <3> QED
      BY <1>1, <2>2, <3>1, States DEF Claimed
  <2> QED
    BY <2>1, <2>2
<1>7. Told'
  <2>1. ~Posted("failed")' /\ ~Posted("successful")'
    BY <1>1 DEF Posted, Has
  <2> QED
    BY <1>1, <2>1 DEF Told
<1>8. spoiled' \cap {"id", "late"} = {} /\ nvsCert # None => nvsCert = nvsId /\ nvsCert = id
  BY <1>1, <1>2 DEF CertificateIsForNode
<1>9. CertificateIsForNode' /\ ClientIsClaimed'
  BY <1>1, <1>8 DEF CertificateIsForNode, ClientIsClaimed
<1> QED
  BY <1>3, <1>4, <1>5, <1>6, <1>7, <1>9 DEF IInv
-----------------------------------------------------------------------------
LEMMA InitIInv == Init => IInv
<1> SUFFICES ASSUME Init PROVE IInv
  OBVIOUS
<1>1. TypeOK
  <2>1. /\ payload \in [Frag -> Content] /\ offset \in 0 .. NumFrags
        /\ state \in Pk .. VerifyDone
    BY ClaimAssumption, States DEF Init, Blank, Content
  <2>2. events \in Seq({"started", "successful", "failed"})
    BY DEF Init
  <2> QED
    BY <2>1, <2>2 DEF Init, TypeOK
<1>2. SentSoFar /\ CertOfRequest /\ IdSaved /\ CertificateIsForNode /\ ClientIsClaimed
  BY States
     DEF Init, SentSoFar, CertOfRequest, IdSaved, CertificateIsForNode, ClientIsClaimed
<1>3. Claimed
  BY States DEF Init, Claimed
<1>4. Told
  <2>1. ~Posted("failed") /\ ~Posted("successful")
    BY DEF Init, Posted, Has
  <2> QED
    BY <2>1 DEF Init, Told
<1> QED
  BY <1>1, <1>2, <1>3, <1>4 DEF IInv

LEMMA StepIInv ==
  ASSUME IInv, [Next]_vars
  PROVE  IInv'
<1>1. CASE UNCHANGED vars
  <2>1. UNCHANGED <<nvsId, nvsCert, nodeId, state, payload, offset, csr, bit, freed, task,
                    needClaim, claimDone, handler, lwt, client, events, got, cert, sent,
                    spoiled>>
    BY <1>1 DEF vars, nvs, claim, core, phone, history
  <2>2. TypeOK'
    BY <2>1 DEF IInv, TypeOK
  <2>3. SentSoFar' /\ CertOfRequest' /\ IdSaved' /\ Claimed'
    BY <2>1 DEF IInv, SentSoFar, CertOfRequest, IdSaved, Claimed
  <2>4. Told' /\ CertificateIsForNode' /\ ClientIsClaimed'
    BY <2>1 DEF IInv, Told, Posted, CertificateIsForNode, ClientIsClaimed
  <2> QED
    BY <2>2, <2>3, <2>4 DEF IInv
<1>2. CASE Start \/ InitMore \/ Abort
  BY <1>2, StartKeeps, InitMoreKeeps, AbortKeeps
<1>3. ASSUME NEW id \in NodeId, InitResponse(id) \/ InitFails(id) PROVE IInv'
  BY <1>3, InitResponseKeeps, InitFailsKeeps
<1>4. ASSUME NEW k \in Frag, VerifyFragment(k) PROVE IInv'
  BY <1>4, VerifyFragmentKeeps
<1>5. CASE ClaimEnds \/ NetworkUp \/ HandleEvent \/ Reboot
  BY <1>5, ClaimEndsKeeps, NetworkUpKeeps, HandleEventKeeps, RebootKeeps
<1> QED
  BY <1>1, <1>2, <1>3, <1>4, <1>5 DEF Next

(* However a phone repeats, restarts or aborts the claim, whichever         *)
(* responses are lost, and wherever the node restarts: the certificate it   *)
(* goes on with is for the id it has and has saved, and so is the last will *)
(* of its MQTT client (esp_rmaker_claiming_handler, claim_event_handler).   *)
THEOREM ClaimsAreForTheNode == Spec => []ClaimIsForNode
<1>1. IInv => ClaimIsForNode
  BY DEF IInv, ClaimIsForNode
<1>2. IInv /\ [Next]_vars => IInv'
  BY StepIInv
<1> QED
  BY <1>1, <1>2, InitIInv, PTL DEF Spec

(* A node that waits for its certificate has sent all of its request, which *)
(* is for the id it has: no fragment is skipped when one is asked for again *)
(* or the request is made anew (handle_assisted_claim_init_response).       *)
THEOREM RequestsAreSent == Spec => []RequestWasSent
<1>1. IInv => RequestWasSent
  BY DEF IInv, SentSoFar, RequestWasSent
<1>2. IInv /\ [Next]_vars => IInv'
  BY StepIInv
<1> QED
  BY <1>1, <1>2, InitIInv, PTL DEF Spec

-----------------------------------------------------------------------------
(* The services near the phone: provisioning with the data it hands out,    *)
(* local control, and challenge-response on the network.                    *)

Pending(e) == \E i \in 1 .. Len(loop) : loop[i] = e
LoopEvent == {"start", "ip", "deinit"}

(* The event loop hears of the start of provisioning before it hears of the *)
(* address, and of the address once; so the agent is past its wait only     *)
(* when the service knows that it must wait for the end of provisioning.    *)
EventsInOrder ==
    /\ prov = "idle" => loop = <<>>
    /\ Pending("start") =>
         Head(loop) = "start" /\ \A i \in 2 .. Len(loop) : loop[i] # "start"
    /\ prov = "idle" \/ Pending("start") => agent = "waits" /\ listens = (build = "local")
    /\ Pending("ip") => agent = "waits"
    /\ \A i, j \in 1 .. Len(loop) : loop[i] = "ip" /\ loop[j] = "ip" => i = j
    /\ Pending("deinit") => prov = "ended"
    /\ prov = "running" /\ build = "local" => Pending("start") \/ waiting
    /\ waiting \/ agent = "waits" => ~started
    /\ serv_name => agent = "done"

(* The HTTP server is of the service that runs, and of one only.            *)
OneServer ==
    /\ http = "prov" => prov = "running"
    /\ http = "local" <=> started
    /\ http = "net" <=> running
    /\ started => build = "local"
    /\ running => build = "network" /\ prov = "ended" /\ (endpoint \/ stopping)
    /\ stopping => running
    /\ build = "network" => /\ ~listens /\ ~waiting /\ ~serv_name /\ ~enabled
                            /\ agent \in {"waits", "done"}
                            /\ running \/ ~cleaned

(* What is announced is neither cleaned up nor being stopped.               *)
Announces ==
    /\ announced => /\ ~cleaned
                    /\ build = "local" => started /\ enabled
                    /\ build = "network" => running /\ mdns /\ ~stopping
    /\ enabled => endpoint \/ "restarted" \in lapse

(* The copy is of the reading that is under way.                            *)
OwnCopy ==
    \A t \in Data \ mixed :
        Begun(t) => kept \in {NoCopy, pieces[t][1]}

LocalInv == /\ ServicesTypeOK /\ EventsInOrder /\ OneServer /\ Announces
            /\ ServerIsFree /\ QuietWhenOff

-----------------------------------------------------------------------------
(* What the types come down to, flag by flag.                               *)
LEMMA LocalTypes ==
  ServicesTypeOK <=>
    /\ build \in Builds /\ http \in {"none", "prov", "local", "net"}
    /\ prov \in {"idle", "running", "ended"}
    /\ agent \in {"waits", "enables", "copies", "done"}
    /\ loop \in Seq(LoopEvent)
    /\ worker \in {"idle", "handled"}
    /\ lapse \subseteq {"missed", "restarted"}
    /\ off \in BOOLEAN /\ endpoint \in BOOLEAN /\ announced \in BOOLEAN
    /\ softap \in BOOLEAN /\ listens \in BOOLEAN /\ waiting \in BOOLEAN
    /\ serv_name \in BOOLEAN /\ started \in BOOLEAN /\ enabled \in BOOLEAN
    /\ cleaned \in BOOLEAN /\ running \in BOOLEAN /\ mdns \in BOOLEAN
    /\ scheduled \in BOOLEAN /\ timer \in BOOLEAN /\ stopping \in BOOLEAN
    /\ wanted \in BOOLEAN /\ owed \in BOOLEAN /\ stray \in BOOLEAN /\ aborted \in BOOLEAN
    /\ calls \in 0 .. MaxCalls /\ failures \in 0 .. MaxFailures
    /\ DataTypeOK
BY DEF ServicesTypeOK, LoopEvent

(* An event that is posted, and one that is taken.                          *)
LEMMA EventPosted ==
  ASSUME NEW e \in LoopEvent, loop \in Seq(LoopEvent), loop' = Append(loop, e)
  PROVE  /\ loop' \in Seq(LoopEvent)
         /\ \A f : Pending(f)' <=> Pending(f) \/ f = e
         /\ Len(loop') = Len(loop) + 1 /\ loop'[Len(loop) + 1] = e
         /\ \A i \in 1 .. Len(loop) : loop'[i] = loop[i]
         /\ loop # <<>> => Head(loop') = Head(loop)
         /\ loop = <<>> => Head(loop') = e
<1>1. /\ loop' \in Seq(LoopEvent) /\ Len(loop) \in Nat /\ Len(loop') = Len(loop) + 1
      /\ loop'[Len(loop) + 1] = e
      /\ \A i \in 1 .. Len(loop) : loop'[i] = loop[i]
  OBVIOUS
<1>2. ASSUME NEW f PROVE Pending(f)' <=> Pending(f) \/ f = e
  BY <1>1 DEF Pending
<1>3. /\ loop # <<>> => Head(loop') = Head(loop)
      /\ loop = <<>> => Head(loop') = e
  BY <1>1
<1> QED
  BY <1>1, <1>2, <1>3

LEMMA EventTaken ==
  ASSUME loop \in Seq(LoopEvent), loop # <<>>, loop' = Tail(loop)
  PROVE  /\ loop' \in Seq(LoopEvent)
         /\ \A f : Pending(f)' => Pending(f)
         /\ Pending(Head(loop)) /\ Head(loop) = loop[1]
         /\ \A f : Pending(f) /\ Head(loop) # f => Pending(f)'
         /\ Len(loop') = Len(loop) - 1 /\ Len(loop) >= 1 /\ Len(loop) \in Nat
         /\ \A i \in 1 .. Len(loop') : loop'[i] = loop[i + 1]
<1>1. /\ loop' \in Seq(LoopEvent) /\ Len(loop) \in Nat /\ Len(loop') = Len(loop) - 1
      /\ Len(loop) >= 1 /\ Head(loop) = loop[1]
      /\ \A i \in 1 .. Len(loop') : loop'[i] = loop[i + 1]
  OBVIOUS
<1>2. ASSUME NEW f, Pending(f)' PROVE Pending(f)
  <2>1. PICK i \in 1 .. Len(loop') : loop'[i] = f
    BY <1>2 DEF Pending
  <2> QED
    BY <1>1, <2>1 DEF Pending
<1>3. ASSUME NEW f, Pending(f), Head(loop) # f PROVE Pending(f)'
  <2>1. PICK i \in 1 .. Len(loop) : loop[i] = f
    BY <1>3 DEF Pending
  <2>2. i - 1 \in 1 .. Len(loop') /\ loop'[i - 1] = f
    BY <1>1, <1>3, <2>1
  <2> QED
    BY <2>2 DEF Pending
<1> QED
  BY <1>1, <1>2, <1>3 DEF Pending

(* The steps of the stand-alone service.                                    *)
NetworkSteps ==
    \/ NetWrapper
    \/ NetStart
    \/ Stopped
    \/ NetStop
    \/ StopTimerFires
    \/ StrayFires
    \/ AppNetDisable
    \/ AppNetEnable

LEMMA NetworkKeeps ==
  ASSUME LocalInv, NetworkSteps
  PROVE  LocalInv'
<1> USE LocalServicesAssumption DEF LocalInv, NetworkSteps
<1> USE LocalTypes
<1> USE DEF NetWrapper, NetStart, Stopped, NetStop,
            StopTimerFires, StrayFires, AppNetDisable,
            AppNetEnable, NetDisable, Stop, AppCall, Call,
            Try, Count, chal, device, local, alone,
            memory, limits, data
<1>1. ServicesTypeOK'
  <2>1. calls' \in 0 .. MaxCalls /\ failures' \in 0 .. MaxFailures
    OBVIOUS
  <2>2. DataTypeOK'
    BY DEF DataTypeOK
  <2>3. \A b \in {off, endpoint, announced, softap, listens, waiting, serv_name,
                 started, enabled, cleaned, running, mdns, scheduled, timer,
                 stopping, wanted, owed, stray, aborted}' : b \in BOOLEAN
    BY ZenonT(40)
  <2> QED
    BY <2>1, <2>2, <2>3, ZenonT(40)
       DEF ServicesTypeOK, LoopEvent
<1>2. EventsInOrder'
  BY DEF EventsInOrder, OneServer, Pending
<1>3. OneServer'
  BY DEF EventsInOrder, OneServer, Builds
<1>4. Announces'
  BY DEF EventsInOrder, OneServer, Announces, Pending
<1>5. ServerIsFree' /\ QuietWhenOff'
  BY DEF EventsInOrder, OneServer, Announces, ServerIsFree, QuietWhenOff,
         Pending, Builds
<1> QED
  BY <1>1, <1>2, <1>3, <1>4, <1>5

(* The steps of local control.                                              *)
LocalSteps ==
    \/ AgentEnables
    \/ AgentCopies
    \/ AppEnable
    \/ AppDisable
    \/ AppEnableChal
    \/ AppDisableChal
    \/ LocalWrapper

LEMMA LocalKeeps ==
  ASSUME LocalInv, LocalSteps
  PROVE  LocalInv'
<1> USE LocalServicesAssumption DEF LocalInv, LocalSteps
<1> USE LocalTypes
<1> USE DEF AgentEnables, AgentCopies, AppEnable, AppDisable,
            AppEnableChal, AppDisableChal, LocalWrapper, Enable,
            StartService, EnableChal, DisableChal, AppCall, Call,
            Try, Count, chal, device, local, alone,
            memory, limits, data
<1>1. ServicesTypeOK'
  <2>1. calls' \in 0 .. MaxCalls /\ failures' \in 0 .. MaxFailures
    OBVIOUS
  <2>2. DataTypeOK'
    BY DEF DataTypeOK
  <2>3. \A b \in {off, endpoint, announced, softap, listens, waiting, serv_name,
                 started, enabled, cleaned, running, mdns, scheduled, timer,
                 stopping, wanted, owed, stray, aborted}' : b \in BOOLEAN
    OBVIOUS
  <2> QED
    BY <2>1, <2>2, <2>3, ZenonT(40)
       DEF ServicesTypeOK, LoopEvent
<1>2. EventsInOrder'
  BY DEF EventsInOrder, OneServer, Pending
<1>3. OneServer'
  BY DEF EventsInOrder, OneServer, Builds
<1>4. Announces'
  BY DEF EventsInOrder, OneServer, Announces, Pending
<1>5. ServerIsFree' /\ QuietWhenOff'
  BY DEF EventsInOrder, OneServer, Announces, ServerIsFree, QuietWhenOff,
         Pending, Builds
<1> QED
  BY <1>1, <1>2, <1>3, <1>4, <1>5

(* The core handler disables challenge-response for a phone.                *)
DisableSteps ==
    \/ ProvDisable
    \/ PhoneDisables

LEMMA DisableKeeps ==
  ASSUME LocalInv, DisableSteps
  PROVE  LocalInv'
<1> USE LocalServicesAssumption DEF LocalInv, DisableSteps
<1> USE LocalTypes
<1> USE DEF ProvDisable, PhoneDisables, ProvServes, Call,
            chal, device, local, alone, memory,
            limits, data
<1>1. ServicesTypeOK'
  <2>1. calls' \in 0 .. MaxCalls /\ failures' \in 0 .. MaxFailures
    OBVIOUS
  <2>2. DataTypeOK'
    BY DEF DataTypeOK
  <2>3. \A b \in {off, endpoint, announced, softap, listens, waiting, serv_name,
                 started, enabled, cleaned, running, mdns, scheduled, timer,
                 stopping, wanted, owed, stray, aborted}' : b \in BOOLEAN
    OBVIOUS
  <2> QED
    BY <2>1, <2>2, <2>3 DEF ServicesTypeOK, LoopEvent
<1>2. EventsInOrder'
  BY DEF EventsInOrder, OneServer, Pending
<1>3. OneServer'
  BY DEF EventsInOrder, OneServer, Builds
<1>4. Announces'
  BY DEF EventsInOrder, OneServer, Announces, Pending
<1>5. ServerIsFree' /\ QuietWhenOff'
  BY DEF EventsInOrder, OneServer, Announces, ServerIsFree, QuietWhenOff,
         Pending, Builds
<1> QED
  BY <1>1, <1>2, <1>3, <1>4, <1>5

(* Provisioning posts its events in the order of the phases.                *)
PostSteps ==
    \/ ProvStart
    \/ ProvCredentials
    \/ ProvEnd

LEMMA PostKeeps ==
  ASSUME LocalInv, PostSteps
  PROVE  LocalInv'
<1> USE DEF LocalInv, PostSteps
<1> USE LocalTypes
<1> USE DEF ProvStart, ProvCredentials, ProvEnd, chal,
            local, alone, memory, limits, data
<1>p. PICK e \in LoopEvent : loop' = Append(loop, e)
  BY DEF LoopEvent
<1>a. /\ loop' \in Seq(LoopEvent)
      /\ \A f : Pending(f)' <=> Pending(f) \/ f = e
      /\ Len(loop') = Len(loop) + 1 /\ loop'[Len(loop) + 1] = e /\ Len(loop) \in Nat
      /\ \A i \in 1 .. Len(loop) : loop'[i] = loop[i]
      /\ loop # <<>> => Head(loop') = Head(loop)
      /\ loop = <<>> => Head(loop') = e
  BY <1>p, EventPosted
<1>e. /\ ProvStart => e = "start" /\ loop = <<>> /\ ~Pending("ip") /\ ~Pending("deinit")
      /\ ProvCredentials => e = "ip" /\ ~Pending("ip")
      /\ ProvEnd => e = "deinit"
  <2>1. loop'[Len(loop) + 1] = e
    BY <1>a
  <2> QED
    BY <1>p, <2>1 DEF EventsInOrder, Pending
<1>1. ServicesTypeOK'
  <2>1. /\ calls' \in 0 .. MaxCalls /\ failures' \in 0 .. MaxFailures
        /\ loop' \in Seq({"start", "ip", "deinit"})
    BY <1>a DEF LoopEvent
  <2>2. DataTypeOK'
    BY DEF DataTypeOK
  <2>3. \A b \in {off, endpoint, announced, softap, listens, waiting, serv_name,
                 started, enabled, cleaned, running, mdns, scheduled, timer,
                 stopping, wanted, owed, stray, aborted}' : b \in BOOLEAN
    OBVIOUS
  <2> QED
    BY <2>1, <2>2, <2>3 DEF ServicesTypeOK
<1>2. EventsInOrder'
  <2>1. Pending("start")' =>
          Head(loop') = "start" /\ \A i \in 2 .. Len(loop') : loop'[i] # "start"
    <3>1. CASE ProvStart
      BY <3>1, <1>a, <1>e
    <3>2. CASE ~ProvStart
      <4>1. e # "start"
        BY <3>2, <1>e
      <4>2. Pending("start")' => Pending("start") /\ loop # <<>>
        BY <4>1, <1>a DEF Pending
      <4>3. \A i \in 2 .. Len(loop') : i \in 2 .. Len(loop) \/ loop'[i] = e
        BY <1>a
      <4> QED
        BY <4>1, <4>2, <4>3, <1>a DEF EventsInOrder
    <3> QED
      BY <3>1, <3>2
  <2>2. \A i, j \in 1 .. Len(loop') : loop'[i] = "ip" /\ loop'[j] = "ip" => i = j
    <3>1. \A i \in 1 .. Len(loop') :
            i \in 1 .. Len(loop) \/ (i = Len(loop) + 1 /\ loop'[i] = e)
      BY <1>a
    <3>2. e = "ip" => \A i \in 1 .. Len(loop) : loop'[i] # "ip"
      BY <1>a, <1>e DEF Pending
    <3> QED
      BY <3>1, <3>2, <1>a DEF EventsInOrder
  <2>3. /\ prov' # "idle"
        /\ Pending("ip")' => agent' = "waits"
        /\ Pending("deinit")' => prov' = "ended"
        /\ prov' = "running" /\ build' = "local" => Pending("start")' \/ waiting'
    BY <1>a, <1>e DEF EventsInOrder
  <2>4. Pending("start")' => agent' = "waits" /\ listens' = (build' = "local")
    BY <1>a, <1>e DEF EventsInOrder
  <2> QED
    BY <2>1, <2>2, <2>3, <2>4 DEF EventsInOrder
<1>3. OneServer'
  BY <1>e DEF EventsInOrder, OneServer, Builds
<1>4. Announces'
  BY DEF OneServer, Announces
<1>5. ServerIsFree' /\ QuietWhenOff'
  BY DEF ServerIsFree, QuietWhenOff
<1> QED
  BY <1>1, <1>2, <1>3, <1>4, <1>5

(* The event loop handles an event.                                         *)
HandleSteps ==
    \/ HandleStart
    \/ HandleDeinit
    \/ HandleIp

LEMMA HandleKeeps ==
  ASSUME LocalInv, HandleSteps
  PROVE  LocalInv'
<1> USE DEF LocalInv, HandleSteps
<1> USE LocalTypes
<1> USE DEF HandleStart, HandleDeinit, HandleIp, StartService,
            Free, chal, local, alone, memory,
            limits, data
<1>a. /\ loop' \in Seq(LoopEvent)
      /\ \A f : Pending(f)' => Pending(f)
      /\ Pending(Head(loop)) /\ Head(loop) = loop[1]
      /\ \A f : Pending(f) /\ Head(loop) # f => Pending(f)'
      /\ Len(loop') = Len(loop) - 1 /\ Len(loop) >= 1 /\ Len(loop) \in Nat
      /\ \A i \in 1 .. Len(loop') : loop'[i] = loop[i + 1]
  BY EventTaken
<1>e. /\ HandleStart => ~Pending("start")'
      /\ ~HandleStart => ~Pending("start")
      /\ HandleIp => /\ ~Pending("ip")' /\ ~Pending("start")
                           /\ agent = "waits" /\ ~started /\ ~serv_name
      /\ HandleDeinit => prov = "ended"
      /\ HandleStart => agent = "waits" /\ listens = (build = "local") /\ ~started
      /\ prov # "idle"
  <2>1. Pending("start") => Head(loop) = "start" /\ \A i \in 2 .. Len(loop) : loop[i] # "start"
    BY DEF EventsInOrder
  <2>2. Head(loop) = "start" => ~Pending("start")'
    BY <2>1, <1>a DEF Pending
  <2>3. Head(loop) = "ip" => ~Pending("ip")'
    <3>1. ASSUME Head(loop) = "ip", Pending("ip")' PROVE FALSE
      <4>1. PICK i \in 1 .. Len(loop') : loop'[i] = "ip"
        BY <3>1 DEF Pending
      <4>2. i + 1 \in 1 .. Len(loop) /\ loop[i + 1] = "ip" /\ loop[1] = "ip"
            /\ 1 \in 1 .. Len(loop) /\ i + 1 # 1
        BY <3>1, <4>1, <1>a
      <4> QED
        BY <4>2 DEF EventsInOrder
    <3> QED
      BY <3>1
  <2> QED
    BY <2>1, <2>2, <2>3, <1>a DEF EventsInOrder
<1>n. HandleDeinit /\ listens /\ waiting /\ serv_name => http = "none"
  BY <1>e DEF EventsInOrder, OneServer, Builds
<1>1. ServicesTypeOK'
  <2>1. /\ calls' \in 0 .. MaxCalls /\ failures' \in 0 .. MaxFailures
        /\ loop' \in Seq({"start", "ip", "deinit"})
    BY <1>a DEF LoopEvent
  <2>2. DataTypeOK'
    BY DEF DataTypeOK
  <2>3. \A b \in {off, endpoint, announced, softap, listens, waiting, serv_name,
                 started, enabled, cleaned, running, mdns, scheduled, timer,
                 stopping, wanted, owed, stray, aborted}' : b \in BOOLEAN
    OBVIOUS
  <2> QED
    BY <2>1, <2>2, <2>3, ZenonT(40)
       DEF ServicesTypeOK
<1>2. EventsInOrder'
  <2>1. \A i, j \in 1 .. Len(loop') : loop'[i] = "ip" /\ loop'[j] = "ip" => i = j
    <3>1. \A i, j \in 1 .. Len(loop) : loop[i] = "ip" /\ loop[j] = "ip" => i = j
      BY DEF EventsInOrder
    <3>2. \A i \in 1 .. Len(loop') : i + 1 \in 1 .. Len(loop) /\ loop'[i] = loop[i + 1]
      BY <1>a
    <3>3. ASSUME NEW i \in 1 .. Len(loop'), NEW j \in 1 .. Len(loop'),
                 loop'[i] = "ip", loop'[j] = "ip"
          PROVE  i = j
      <4>1. i + 1 = j + 1
        BY <3>1, <3>2, <3>3
      <4> QED
        BY <4>1, <1>a
    <3> QED
      BY <3>3
  <2>2. ~Pending("start")' /\ prov' # "idle"
    <3>1. Pending("start")' => Pending("start")
      BY <1>a
    <3> QED
      BY <3>1, <1>e
  <2>3. /\ Pending("ip")' => agent' = "waits"
        /\ Pending("deinit")' => prov' = "ended"
        /\ prov' = "running" /\ build' = "local" => waiting'
    BY <1>a, <1>e DEF EventsInOrder
  <2>4. /\ waiting' \/ agent' = "waits" => ~started'
        /\ serv_name' => agent' = "done"
    BY <1>a, <1>e DEF EventsInOrder
  <2> QED
    BY <2>1, <2>2, <2>3, <2>4 DEF EventsInOrder
<1>3. OneServer'
  BY <1>e, <1>n DEF EventsInOrder, OneServer, Builds
<1>4. Announces'
  BY <1>e, <1>n DEF OneServer, Announces
<1>5. ServerIsFree' /\ QuietWhenOff'
  BY <1>n DEF ServerIsFree, QuietWhenOff
<1> QED
  BY <1>1, <1>2, <1>3, <1>4, <1>5

-----------------------------------------------------------------------------
(* The copy.                                                                *)
ReadingInv == OwnCopy /\ WholeCopy

LEMMA ReadKeeps ==
  ASSUME DataTypeOK, ReadingInv,
         NEW t \in Data, NEW copied \in BOOLEAN, NEW arrives \in BOOLEAN,
         Read(t, copied, arrives)
  PROVE  DataTypeOK' /\ ReadingInv'
<1> DEFINE place == Len(pieces[t])
           answer == IF place = 0 /\ ~copied THEN NoCopy ELSE Source(t, place)
<1>1. /\ pieces[t] \in Seq(Copy) /\ place \in Nat /\ place < NumFragments
      /\ kept \in Copy \cup {NoCopy} /\ NoCopy \notin Copy
      /\ version \in 1 .. MaxVersions /\ mixed \subseteq Data
      /\ DOMAIN pieces = Data
      /\ \A u \in Data : pieces[u] \in Seq(Copy) /\ Len(pieces[u]) <= NumFragments
      /\ \A u \in Data :
            Len(pieces[u]) \in Nat /\ (pieces[u] = <<>> <=> Len(pieces[u]) = 0)
  BY DEF DataTypeOK, Read, Copy, NoCopy, Data
<1>2. /\ answer \in Copy \cup {NoCopy}
      /\ place = 0 => answer \in {NoCopy, [type |-> t, version |-> version]}
      /\ place > 0 => answer = kept
  BY <1>1 DEF Source, Copy
<1>3. /\ kept' \in {answer, NoCopy} /\ version' = version
      /\ pieces' = [pieces EXCEPT ![t] = IF ~arrives THEN @
                                   ELSE IF answer = NoCopy THEN <<>>
                                   ELSE Append(@, answer)]
      /\ mixed' = IF place = 0
                  THEN {u \in Data \ {t} : Begun(u)} \cup (mixed \ {t})
                  ELSE mixed
  BY DEF Read, Free
<1> HIDE DEF place, answer
<1>4. /\ DOMAIN pieces' = Data /\ \A u \in Data \ {t} : pieces'[u] = pieces[u]
      /\ \/ pieces'[t] \in {pieces[t], <<>>}
         \/ answer \in Copy /\ pieces'[t] = Append(pieces[t], answer)
  BY <1>1, <1>2, <1>3
<1>5. answer \in Copy =>
        /\ Append(pieces[t], answer) \in Seq(Copy)
        /\ Len(Append(pieces[t], answer)) = place + 1
        /\ Append(pieces[t], answer)[place + 1] = answer
        /\ \A i \in 1 .. place : Append(pieces[t], answer)[i] = pieces[t][i]
  BY <1>1 DEF place
<1>6. DataTypeOK'
  <2>1. pieces'[t] \in Seq(Copy) /\ Len(pieces'[t]) <= NumFragments
    <3>1. CASE pieces'[t] = pieces[t]
      BY <3>1, <1>1
    <3>2. CASE pieces'[t] = <<>>
      BY <3>2, <1>1, ProvDataAssumption
    <3>3. CASE answer \in Copy /\ pieces'[t] = Append(pieces[t], answer)
      <4>1. Len(pieces'[t]) = place + 1 /\ pieces'[t] \in Seq(Copy) /\ NumFragments \in Nat
        BY <3>3, <1>5, ProvDataAssumption
      <4> QED
        BY <4>1, <1>1 DEF place
    <3> QED
      BY <3>1, <3>2, <3>3, <1>4
  <2> QED
    BY <2>1, <1>1, <1>2, <1>3, <1>4 DEF DataTypeOK
(* A type left for the other one is mixed; what is not is read from its own *)
(* copy, or there is none.                                                  *)
<1>7. ASSUME NEW u \in Data, u \notin mixed'
      PROVE  /\ Begun(u)' => kept' \in {NoCopy, pieces'[u][1]}
             /\ \A i \in 1 .. Len(pieces'[u]) :
                  pieces'[u][i] = pieces'[u][1] /\ pieces'[u][i].type = u
  <2>1. CASE u # t
    <3>1. u \notin mixed /\ pieces'[u] = pieces[u] /\ (Begun(u) => place # 0)
      BY <2>1, <1>3, <1>4, <1>7
    <3>2. Begun(u)' <=> Begun(u)
      BY <3>1 DEF Begun
    <3>3. Begun(u) => kept \in {NoCopy, pieces[u][1]}
      BY <3>1 DEF ReadingInv, OwnCopy
    <3>4. \A i \in 1 .. Len(pieces[u]) :
             pieces[u][i] = pieces[u][1] /\ pieces[u][i].type = u
      BY <3>1 DEF ReadingInv, WholeCopy
    <3>5. Begun(u) => kept' \in {NoCopy, pieces[u][1]}
      BY <3>1, <3>3, <1>1, <1>2, <1>3 DEF place
    <3> QED
      BY <3>1, <3>2, <3>4, <3>5
  <2>2. CASE u = t /\ pieces'[t] = <<>>
    BY <2>2, <1>1 DEF Begun
  <2>3. CASE u = t /\ place = 0 /\ pieces'[t] # <<>>
    <3>1. pieces[t] = <<>>
      BY <2>3, <1>1 DEF place
    <3>2. answer \in Copy /\ pieces'[t] = Append(pieces[t], answer)
      BY <2>3, <3>1, <1>4
    <3>3. Len(pieces'[t]) = 1 /\ pieces'[t][1] = answer /\ answer.type = t
      BY <2>3, <3>2, <1>2, <1>5, <1>1
    <3> QED
      BY <2>3, <3>3, <1>3
  <2>4. CASE u = t /\ place # 0 /\ pieces'[t] # <<>>
    <3>1. t \notin mixed /\ Begun(t) /\ answer = kept /\ 1 \in 1 .. place
      BY <2>4, <1>1, <1>2, <1>3, <1>7 DEF Begun, place
    <3>2. /\ kept \in {NoCopy, pieces[t][1]}
          /\ \A i \in 1 .. place : pieces[t][i] = pieces[t][1] /\ pieces[t][i].type = t
      BY <3>1 DEF ReadingInv, OwnCopy, WholeCopy, place
    <3>3. CASE pieces'[t] = pieces[t]
      BY <2>4, <3>1, <3>2, <3>3, <1>3 DEF place
    <3>4. CASE answer \in Copy /\ pieces'[t] = Append(pieces[t], answer)
      <4>1. /\ answer = pieces[t][1] /\ pieces'[t][1] = pieces[t][1]
            /\ Len(pieces'[t]) = place + 1
        BY <3>1, <3>2, <3>4, <1>1, <1>5
      <4>2. \A i \in 1 .. place + 1 : pieces'[t][i] = pieces[t][1]
        BY <3>1, <3>2, <3>4, <4>1, <1>1, <1>5
      <4>3. pieces[t][1].type = t
        BY <3>1, <3>2
      <4> QED
        BY <2>4, <4>1, <4>2, <4>3, <1>3
    <3> QED
      BY <2>4, <3>3, <3>4, <1>4
  <2> QED
    BY <2>1, <2>2, <2>3, <2>4
<1> QED
  BY <1>6, <1>7 DEF ReadingInv, OwnCopy, WholeCopy

LEMMA DataKept ==
  ASSUME DataTypeOK, ReadingInv,
         \/ UNCHANGED data
         \/ \E t \in Data : ReadAgain(t)
         \/ Change
         \/ Free /\ UNCHANGED <<version, pieces, mixed>>
  PROVE  DataTypeOK' /\ ReadingInv'
<1>1. CASE UNCHANGED data
  BY <1>1
     DEF data, DataTypeOK, ReadingInv, OwnCopy, WholeCopy, Begun
<1>2. ASSUME NEW t \in Data, ReadAgain(t)
      PROVE  DataTypeOK' /\ ReadingInv'
  <2>1. /\ DOMAIN pieces = Data /\ DOMAIN pieces' = Data /\ pieces'[t] = <<>>
        /\ \A u \in Data \ {t} : pieces'[u] = pieces[u]
        /\ mixed' = mixed \ {t} /\ version' = version /\ kept' = kept
    BY <1>2 DEF ReadAgain, DataTypeOK
  <2>2. DataTypeOK'
    <3>1. <<>> \in Seq(Copy) /\ Len(<<>>) = 0
      OBVIOUS
    <3>2. \A u \in Data : pieces'[u] \in Seq(Copy) /\ Len(pieces'[u]) <= NumFragments
      <4>1. ASSUME NEW u \in Data
            PROVE  pieces'[u] \in Seq(Copy) /\ Len(pieces'[u]) <= NumFragments
        <5>1. CASE u = t
          BY <2>1, <3>1, <5>1, ProvDataAssumption
        <5>2. CASE u # t
          BY <2>1, <5>2 DEF DataTypeOK
        <5> QED
          BY <5>1, <5>2
      <4> QED
        BY <4>1
    <3> QED
      BY <2>1, <3>2 DEF DataTypeOK
  <2>3. \A u \in Data \ mixed' : Begun(u)' => Begun(u) /\ u # t
    BY <2>1 DEF Begun
  <2> QED
    BY <2>1, <2>2, <2>3 DEF ReadingInv, OwnCopy, WholeCopy
<1>3. CASE Change
  <2>1. version' \in 1 .. MaxVersions
    BY <1>3, ProvDataAssumption DEF Change, DataTypeOK
  <2> QED
    BY <1>3, <2>1
       DEF Change, DataTypeOK, ReadingInv, OwnCopy, WholeCopy, Begun
<1>4. CASE Free /\ UNCHANGED <<version, pieces, mixed>>
  BY <1>4
     DEF Free, DataTypeOK, ReadingInv, OwnCopy, WholeCopy, Begun
<1> QED
  BY <1>1, <1>2, <1>3, <1>4

DataSteps == ProvRead \/ ProvReadAgain \/ ProvChange

LEMMA DataStepsKeep ==
  ASSUME LocalInv, ReadingInv, DataSteps
  PROVE  LocalInv' /\ ReadingInv'
<1> USE LocalTypes DEF LocalInv
<1>1. DataTypeOK' /\ ReadingInv'
  BY ReadKeeps, DataKept
     DEF DataSteps, ProvRead, ProvReadAgain, ProvChange
<1>2. /\ UNCHANGED <<build, http, chal, device, local, alone,
                      worker, memory>>
      /\ calls' \in 0 .. MaxCalls /\ failures' \in 0 .. MaxFailures
  BY LocalServicesAssumption
     DEF DataSteps, ProvRead, ProvReadAgain, ProvChange, Call, Try, Count, limits
<1>3. ServicesTypeOK'
  <2>1. \A b \in {off, endpoint, announced, softap, listens, waiting, serv_name,
                 started, enabled, cleaned, running, mdns, scheduled, timer,
                 stopping, wanted, owed, stray, aborted}' : b \in BOOLEAN
    BY <1>2 DEF chal, device, local, alone, memory
  <2> QED
    BY <1>1, <1>2, <2>1
       DEF ServicesTypeOK, chal, device, local, alone, memory, LoopEvent
<1>4. EventsInOrder' /\ OneServer' /\ Announces' /\ ServerIsFree' /\ QuietWhenOff'
  BY <1>2
     DEF chal, device, local, alone, memory, EventsInOrder, OneServer, Announces,
         ServerIsFree, QuietWhenOff, Pending
<1> QED
  BY <1>1, <1>3, <1>4

-----------------------------------------------------------------------------
LEMMA InitLocal ==
  ASSUME ServicesInit
  PROVE  LocalInv /\ ReadingInv
<1> USE LocalServicesAssumption, ProvDataAssumption DEF ServicesInit, DataInit
<1>1. DataTypeOK
  BY DEF DataTypeOK, Data
<1>2. ReadingInv
  BY DEF ReadingInv, OwnCopy, WholeCopy, Begun
<1>3. ServicesTypeOK
  <2>1. loop \in Seq({"start", "ip", "deinit"})
    <3>1. <<"ip">> \in Seq({"start", "ip", "deinit"})
      OBVIOUS
    <3>2. <<>> \in Seq({"start", "ip", "deinit"}) /\ loop \in {<<>>, <<"ip">>}
      OBVIOUS
    <3> QED
      BY <3>1, <3>2
  <2>2. calls \in 0 .. MaxCalls /\ failures \in 0 .. MaxFailures
    OBVIOUS
  <2>3. \A b \in {off, endpoint, announced, softap, listens, waiting, serv_name,
                 started, enabled, cleaned, running, mdns, scheduled, timer,
                 stopping, wanted, owed, stray, aborted} : b \in BOOLEAN
    OBVIOUS
  <2> QED
    BY <1>1, <2>1, <2>2, <2>3 DEF ServicesTypeOK
<1>4. EventsInOrder
  <2>1. CASE loop = <<>>
    BY <2>1 DEF EventsInOrder, Pending
  <2>2. CASE loop = <<"ip">>
    BY <2>2 DEF EventsInOrder, Pending
  <2> QED
    BY <2>1, <2>2
<1>5. OneServer /\ Announces /\ ServerIsFree /\ QuietWhenOff
  BY DEF OneServer, Announces, ServerIsFree, QuietWhenOff
<1> QED
  BY <1>2, <1>3, <1>4, <1>5 DEF LocalInv

LEMMA StepLocal ==
  ASSUME LocalInv, ReadingInv, [ServicesNext]_serviceVars
  PROVE  LocalInv' /\ ReadingInv'
<1>1. CASE DataSteps
  BY <1>1, DataStepsKeep
<1>2. CASE UNCHANGED serviceVars
  <2>1. /\ UNCHANGED <<build, http, worker>> /\ UNCHANGED chal /\ UNCHANGED device
        /\ UNCHANGED local /\ UNCHANGED alone
        /\ UNCHANGED memory /\ UNCHANGED limits
        /\ UNCHANGED data
    BY <1>2 DEF serviceVars
  <2>2. DataTypeOK' /\ ReadingInv'
    BY <2>1, DataKept, LocalTypes DEF LocalInv
  <2> QED
    BY <2>1, <2>2
       DEF chal, device, local, alone, memory, limits, LocalInv, ServicesTypeOK,
           EventsInOrder, OneServer, Announces, ServerIsFree, QuietWhenOff,
           Pending
<1>3. CASE NetworkSteps \/ LocalSteps \/ DisableSteps \/ PostSteps \/ HandleSteps
  <2>1. LocalInv'
    BY <1>3, NetworkKeeps, LocalKeeps, DisableKeeps, PostKeeps, HandleKeeps
  <2>2. UNCHANGED data \/ (Free /\ UNCHANGED <<version, pieces, mixed>>)
    BY <1>3
       DEF NetworkSteps, LocalSteps, DisableSteps, PostSteps, HandleSteps,
           NetWrapper, NetStart, Stopped, NetStop, StopTimerFires, StrayFires,
           AppNetDisable, AppNetEnable, AgentEnables, AgentCopies, AppEnable,
           AppDisable, AppEnableChal, AppDisableChal, LocalWrapper, ProvDisable,
           PhoneDisables, ProvStart, ProvCredentials, ProvEnd, HandleStart,
           HandleDeinit, HandleIp, data
  <2>3. ReadingInv'
    BY <2>2, DataKept, LocalTypes DEF LocalInv
  <2> QED
    BY <2>1, <2>3
<1> QED
  BY <1>1, <1>2, <1>3
     DEF ServicesNext, Progress, DataSteps, NetworkSteps, LocalSteps,
         DisableSteps, PostSteps, HandleSteps

(* Whatever phones, the application, provisioning and the network do in     *)
(* whatever order: local control never starts while provisioning has the    *)
(* HTTP server; once challenge-response is off it is announced no more; and *)
(* what is announced has its endpoint, unless local control was restarted   *)
(* (esp_rmaker_local_ctrl_enable, _disable_chal_resp, on_network_stop_      *)
(* timer_cb).                                                               *)
THEOREM LocalServicesAreTrue == ServicesSpec => []ServicesAreTrue
<1>1. LocalInv => ServicesAreTrue
  BY LocalTypes
     DEF LocalInv, ServicesAreTrue, Announces, OneServer, AnnouncedIsServed,
         Builds
<1>2. ServicesInit => LocalInv /\ ReadingInv
  BY InitLocal
<1>3. LocalInv /\ ReadingInv /\ [ServicesNext]_serviceVars => LocalInv' /\ ReadingInv'
  BY StepLocal
<1> QED
  BY <1>1, <1>2, <1>3, PTL DEF ServicesSpec

(* What a phone puts together of the fragments it was sent is one copy, of  *)
(* what it asked for, however often it asks, whatever answers are lost, and *)
(* whatever changes meanwhile, unless it left the one reading for the other *)
(* (esp_rmaker_get_data_handler).                                           *)
THEOREM PhonesReadWholeCopies == ServicesSpec => []WholeCopy
<1>1. ReadingInv => WholeCopy
  BY DEF ReadingInv
<1>2. ServicesInit => LocalInv /\ ReadingInv
  BY InitLocal
<1>3. LocalInv /\ ReadingInv /\ [ServicesNext]_serviceVars => LocalInv' /\ ReadingInv'
  BY StepLocal
<1> QED
  BY <1>1, <1>2, <1>3, PTL DEF ServicesSpec
=============================================================================
