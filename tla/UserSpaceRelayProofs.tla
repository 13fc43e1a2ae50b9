------------------------- MODULE UserSpaceRelayProofs -------------------------
(***************************************************************************)
(* What is proved of user_space.c, for every set of requests and ports,    *)
(* every capacity of the pipe and every number of reads and failed forks.  *)
(***************************************************************************)
EXTENDS UserSpaceRelay, FiniteSetTheorems, TLAPS

(* What the sequence operators do to the elements.                         *)
LEMMA AppendFacts ==
  ASSUME NEW S, NEW s \in Seq(S), NEW e \in S
  PROVE  /\ Append(s, e) \in Seq(S)
         /\ Len(Append(s, e)) = Len(s) + 1
         /\ Append(s, e)[Len(s) + 1] = e
         /\ \A k \in 1 .. Len(s) : Append(s, e)[k] = s[k]
  OBVIOUS

LEMMA TailFacts ==
  ASSUME NEW S, NEW s \in Seq(S), s # <<>>
  PROVE  /\ Len(s) \in Nat \ {0}
         /\ Head(s) = s[1] /\ Head(s) \in S
         /\ Tail(s) \in Seq(S)
         /\ Len(Tail(s)) = Len(s) - 1
         /\ \A k \in 1 .. Len(s) - 1 : Tail(s)[k] = s[k + 1]
  OBVIOUS

LEMMA SeqWidens ==
  ASSUME NEW n \in Nat, NEW s \in Seq(1 .. n)
  PROVE  s \in Seq(1 .. n + 1)
  <1>1. \A k \in 1 .. Len(s) : s[k] \in 1 .. n + 1
    OBVIOUS
  <1> QED
    BY <1>1

(* Where i occurs in s, and whether anything occurs twice.                 *)
Occurs(s, i) == \E k \in 1 .. Len(s) : s[k] = i
NoRepeat(s) == \A k, l \in 1 .. Len(s) : s[k] = s[l] => k = l

LEMMA AppendOccurs ==
  ASSUME NEW S, NEW s \in Seq(S), NEW e \in S
  PROVE  /\ \A i : Occurs(Append(s, e), i) <=> Occurs(s, i) \/ i = e
         /\ NoRepeat(s) /\ ~Occurs(s, e) => NoRepeat(Append(s, e))
  <1> DEFINE t == Append(s, e)
  <1>1. /\ Len(s) \in Nat /\ Len(t) = Len(s) + 1
        /\ t[Len(s) + 1] = e
        /\ \A k \in 1 .. Len(s) : t[k] = s[k]
    BY AppendFacts
  <1>2. \A k \in 1 .. Len(t) : k \in 1 .. Len(s) \/ k = Len(s) + 1
    BY <1>1
  <1> HIDE DEF t
  <1>3. ASSUME NEW i PROVE Occurs(t, i) <=> Occurs(s, i) \/ i = e
    BY <1>1, <1>2 DEF Occurs
  <1>4. NoRepeat(s) /\ ~Occurs(s, e) => NoRepeat(t)
    BY <1>1, <1>2 DEF Occurs, NoRepeat
  <1> QED
    BY <1>3, <1>4 DEF t

LEMMA TailOccurs ==
  ASSUME NEW S, NEW s \in Seq(S), s # <<>>, NoRepeat(s)
  PROVE  /\ \A i : Occurs(Tail(s), i) <=> Occurs(s, i) /\ i # Head(s)
         /\ Occurs(s, Head(s))
         /\ NoRepeat(Tail(s))
  <1> DEFINE t == Tail(s)
  <1>1. /\ Len(s) \in Nat \ {0} /\ Len(t) = Len(s) - 1
        /\ Head(s) = s[1]
        /\ \A k \in 1 .. Len(t) : t[k] = s[k + 1]
    BY TailFacts
  <1> HIDE DEF t
  <1>2. Occurs(s, Head(s))
    BY <1>1 DEF Occurs
  <1>3. NoRepeat(t)
    <2>1. SUFFICES ASSUME NEW k \in 1 .. Len(t), NEW l \in 1 .. Len(t),
                          t[k] = t[l]
                   PROVE  k = l
      BY DEF NoRepeat
    <2>2. /\ k + 1 \in 1 .. Len(s) /\ l + 1 \in 1 .. Len(s)
          /\ s[k + 1] = s[l + 1]
      BY <1>1, <2>1
    <2> QED
      BY <2>2 DEF NoRepeat
  <1>4. ASSUME NEW i PROVE Occurs(t, i) <=> Occurs(s, i) /\ i # Head(s)
    <2>1. ASSUME NEW k \in 1 .. Len(t), t[k] = i
          PROVE  Occurs(s, i) /\ i # Head(s)
      <3>1. k + 1 \in 1 .. Len(s) /\ k + 1 # 1 /\ 1 \in 1 .. Len(s)
        BY <1>1
      <3>2. s[k + 1] = i
        BY <1>1, <2>1
      <3> QED
        BY <1>1, <3>1, <3>2 DEF Occurs, NoRepeat
    <2>2. ASSUME NEW k \in 1 .. Len(s), s[k] = i, i # Head(s)
          PROVE  Occurs(t, i)
      <3>1. k - 1 \in 1 .. Len(t)
        BY <1>1, <2>2
      <3>2. t[k - 1] = s[k]
        BY <1>1, <3>1
      <3> QED
        BY <2>2, <3>1, <3>2 DEF Occurs
    <2> QED
      BY <2>1, <2>2 DEF Occurs
  <1> QED
    BY <1>2, <1>3, <1>4 DEF t

LEMMA OutOfRange ==
  ASSUME NEW n \in Nat, NEW s \in Seq(1 .. n)
  PROVE  ~Occurs(s, n + 1)
  <1>1. \A k \in 1 .. Len(s) : s[k] \in 1 .. n
    OBVIOUS
  <1>2. n + 1 \notin 1 .. n
    OBVIOUS
  <1> QED
    BY <1>1, <1>2 DEF Occurs

(* The buffer after a read begins with the request that was read.          *)
LEMMA BufferType ==
  ASSUME NEW m \in Message, buffer \in Text
  PROVE  Overwritten(m) \in Text /\ Overwritten(m)[1] = m
  BY RelayAssumption DEF Text, Overwritten

-----------------------------------------------------------------------------
(* The inductive invariant, besides TypeOK.                                *)

(* The peer closes after the first read, which filled the buffer's front.  *)
Opened ==
  /\ closed => reads > 0
  /\ reads > 0 => buffer[1] \in Message

(* A child has the number of a read before its fork.                       *)
Forked ==
  /\ parent # "read" => reads >= 1
  /\ \A c \in Read :
       child[c] # "none" =>
         c < reads \/ (c = reads /\ parent \in {"read", "ended"})

(* A child that works has a buffer, and it binds only for a setup.         *)
Phases ==
  \A c \in Read :
    /\ Working(c) => item[c] \in 1 .. reads
    /\ child[c] \in {"bind1", "poll1", "bind2", "poll2"} =>
         MessageOf(item[c]) \in Setup

(* The places a buffer can be in.                                          *)
AtParent(i) == parent = "write" /\ i = reads
InPipe(i) == Occurs(pipe, i)
InHand(i) == \E c \in Read : Working(c) /\ item[c] = i
IsSent(i) == Occurs(sent, i)

OnePlace ==
  \A i \in 1 .. reads :
    \/ AtParent(i) /\ ~InPipe(i) /\ ~InHand(i) /\ ~IsSent(i) /\ i \notin dropped
    \/ ~AtParent(i) /\ InPipe(i) /\ ~InHand(i) /\ ~IsSent(i) /\ i \notin dropped
    \/ ~AtParent(i) /\ ~InPipe(i) /\ InHand(i) /\ ~IsSent(i) /\ i \notin dropped
    \/ ~AtParent(i) /\ ~InPipe(i) /\ ~InHand(i) /\ IsSent(i) /\ i \notin dropped
    \/ ~AtParent(i) /\ ~InPipe(i) /\ ~InHand(i) /\ ~IsSent(i) /\ i \in dropped

(* And it is there once.                                                   *)
Distinct ==
  /\ NoRepeat(pipe) /\ NoRepeat(sent)
  /\ \A c, d \in Read :
       Working(c) /\ Working(d) /\ item[c] = item[d] => c = d

IInv == TypeOK /\ Opened /\ Forked /\ Phases /\ OnePlace /\ Distinct

LEMMA Initially == Init => IInv
  <1> SUFFICES ASSUME Init PROVE IInv
    OBVIOUS
  <1> USE RelayAssumption
  <1>1. reads = 0
    BY DEF Init, reads
  <1>2. TypeOK
    <2>1. buffer \in Text
      BY DEF Init, ClearedBuffer, Text
    <2>2. /\ inbox \in Seq(Message) /\ texts \in Seq(Text)
          /\ pipe \in Seq(1 .. reads) /\ sent \in Seq(1 .. reads)
      BY DEF Init
    <2>3. item \in [Read -> 0 .. reads] /\ dropped \subseteq 1 .. reads
      BY <1>1 DEF Init
    <2>4. /\ offered \in 0 .. MaxMessages /\ fork_fails \in 0 .. MaxForkFails
          /\ reads <= MaxReads /\ 1 .. reads = {}
      BY <1>1 DEF Init
    <2>5. child \in [Read -> {"none", "new", "bind1", "poll1", "bind2",
                             "poll2", "send", "gone"}]
      BY DEF Init
    <2> QED
      BY <2>1, <2>2, <2>3, <2>4, <2>5 DEF Init, TypeOK
  <1>3. Opened /\ Forked /\ Phases /\ OnePlace
    BY <1>1 DEF Init, Opened, Forked, Phases, Working, OnePlace
  <1>4. Distinct
    BY DEF Init, Distinct, NoRepeat, Working
  <1> QED
    BY <1>2, <1>3, <1>4 DEF IInv

-----------------------------------------------------------------------------
(* What the steps do to the history of reads.                              *)

(* What appending a buffer does to the earlier ones.                       *)
ReadAdds(text) ==
  /\ texts' \in Seq(Text)
  /\ reads \in Nat /\ reads' = reads + 1
  /\ \A i \in 1 .. reads : MessageOf(i)' = MessageOf(i)
  /\ MessageOf(reads)' = text[1]

LEMMA AppendedText ==
  ASSUME NEW text \in Text, texts \in Seq(Text), texts' = Append(texts, text)
  PROVE  ReadAdds(text)
  <1>1. /\ texts' \in Seq(Text)
        /\ Len(texts') = Len(texts) + 1
        /\ texts'[Len(texts) + 1] = text
        /\ \A i \in 1 .. Len(texts) : texts'[i] = texts[i]
    BY AppendFacts
  <1> QED
    BY <1>1 DEF ReadAdds, reads, MessageOf

(* A read adds a buffer that begins with a request; the others stay.       *)
LEMMA ReadEffect ==
  ASSUME TypeOK, ParentReads \/ ParentReadsEof,
         ParentReadsEof => buffer[1] \in Message
  PROVE  /\ texts' \in Seq(Text)
         /\ reads' = reads + 1 /\ reads' <= MaxReads /\ reads \in Nat
         /\ \A i \in 1 .. reads : MessageOf(i)' = MessageOf(i)
         /\ MessageOf(reads)' \in Message
         /\ parent' = "write"
         /\ buffer' \in Text /\ inbox' \in Seq(Message)
         /\ UNCHANGED <<offered, closed, pipe, child, item, fork_fails, sent,
                        dropped, barred>>
  <1> USE RelayAssumption
  <1>1. CASE ParentReads
    <2>1. Head(inbox) \in Message /\ inbox' \in Seq(Message)
      BY <1>1, TailFacts DEF ParentReads, TypeOK
    <2>2. buffer' \in Text /\ buffer'[1] \in Message
      BY <1>1, <2>1, BufferType DEF ParentReads, TypeOK
    <2>3. texts' = Append(texts, buffer') /\ texts \in Seq(Text)
      BY <1>1 DEF ParentReads, TypeOK
    <2>4. ReadAdds(buffer')
      BY <2>2, <2>3, AppendedText DEF TypeOK
    <2> QED
      BY <1>1, <2>1, <2>2, <2>4 DEF ParentReads, TypeOK, ReadAdds
  <1>2. CASE ParentReadsEof
    <2>1. /\ texts' = Append(texts, buffer) /\ texts \in Seq(Text)
          /\ buffer \in Text
      BY <1>2 DEF ParentReadsEof, TypeOK
    <2>2. ReadAdds(buffer)
      BY <1>2, <2>1, AppendedText DEF TypeOK
    <2>3. inbox' = inbox /\ buffer' = buffer /\ reads < MaxReads
      BY <1>2 DEF ParentReadsEof
    <2> QED
      BY <1>2, <2>1, <2>2, <2>3 DEF ParentReadsEof, TypeOK, ReadAdds
  <1> QED
    BY <1>1, <1>2

-----------------------------------------------------------------------------
(* The steps preserve the invariant.                                       *)

(* Steps of the peer.                                                      *)
LEMMA PeerKeeps == IInv /\ Peer => IInv'
  <1> SUFFICES ASSUME IInv, Peer PROVE IInv'
    OBVIOUS
  <1> USE RelayAssumption DEF processes
  <1>1. UNCHANGED <<buffer, processes, reads>>
    BY DEF Peer, PeerSends, PeerCloses, reads
  <1>2. inbox' \in Seq(Message) /\ offered' \in 0 .. MaxMessages
    <2>1. CASE \E m \in Message : PeerSends(m)
      BY <2>1 DEF IInv, TypeOK, PeerSends
    <2>2. CASE PeerCloses
      BY <2>2 DEF IInv, TypeOK, PeerCloses
    <2> QED
      BY <2>1, <2>2 DEF Peer
  <1>3. closed' \in BOOLEAN /\ (closed' => reads > 0)
    <2>1. CASE \E m \in Message : PeerSends(m)
      <3>1. closed' = closed
        BY <2>1 DEF PeerSends
      <3> QED
        BY <3>1 DEF IInv, TypeOK, Opened
    <2>2. CASE PeerCloses
      BY <2>2 DEF PeerCloses
    <2> QED
      BY <2>1, <2>2 DEF Peer
  <1>4. TypeOK'
    BY <1>1, <1>2, <1>3 DEF IInv, TypeOK, MessageOf
  <1>5. Opened' /\ Forked' /\ Phases'
    BY <1>1, <1>3 DEF IInv, Opened, Forked, Phases, Working, MessageOf
  <1>6. OnePlace' /\ Distinct'
    BY <1>1
    DEF IInv, OnePlace, Distinct, AtParent, InPipe, InHand, IsSent, Working
  <1> QED
    BY <1>4, <1>5, <1>6 DEF IInv

(* A read: the new buffer is in the parent's hands.                        *)
LEMMA ReadKeeps == IInv /\ (ParentReads \/ ParentReadsEof) => IInv'
  <1> SUFFICES ASSUME IInv, ParentReads \/ ParentReadsEof PROVE IInv'
    OBVIOUS
  <1> USE RelayAssumption
  <1>1. /\ texts' \in Seq(Text)
        /\ reads' = reads + 1 /\ reads' <= MaxReads /\ reads \in Nat
        /\ \A i \in 1 .. reads : MessageOf(i)' = MessageOf(i)
        /\ MessageOf(reads)' \in Message
        /\ parent' = "write"
        /\ buffer' \in Text /\ inbox' \in Seq(Message)
        /\ UNCHANGED <<offered, closed, pipe, child, item, fork_fails, sent,
                       dropped, barred>>
    <2>1. ParentReadsEof => buffer[1] \in Message
      BY DEF IInv, Opened, ParentReadsEof
    <2> QED
      BY <2>1, ReadEffect DEF IInv
  <1>2. parent = "read"
    BY DEF ParentReads, ParentReadsEof
  <1>3. \A i \in 1 .. reads' : MessageOf(i)' \in Message
    <2>1. \A i \in 1 .. reads' : i \in 1 .. reads \/ i = reads'
      BY <1>1
    <2> QED
      BY <1>1, <2>1 DEF IInv, TypeOK, MessageOf
  <1>4. TypeOK'
    <2>1. pipe' \in Seq(1 .. reads') /\ sent' \in Seq(1 .. reads')
      BY <1>1, SeqWidens DEF IInv, TypeOK
    <2>2. item' \in [Read -> 0 .. reads'] /\ dropped' \subseteq 1 .. reads'
      BY <1>1 DEF IInv, TypeOK
    <2>3. barred' \subseteq dropped'
      BY <1>1 DEF IInv, TypeOK
    <2> QED
      BY <1>1, <1>3, <2>1, <2>2, <2>3 DEF IInv, TypeOK
  <1>5. Opened'
    <2>1. buffer'[1] \in Message
      <3>1. CASE ParentReads
        BY <3>1, TailFacts, BufferType DEF ParentReads, IInv, TypeOK
      <3>2. CASE ParentReadsEof
        BY <3>2 DEF ParentReadsEof, IInv, Opened
      <3> QED
        BY <3>1, <3>2
    <2> QED
      BY <1>1, <2>1 DEF Opened
  <1>6. Forked'
    <2>1. ASSUME NEW c \in Read, child'[c] # "none"
          PROVE  c < reads'
      <3>1. c \in Nat /\ (c < reads \/ c = reads)
        BY <1>1, <2>1 DEF IInv, Forked, Read
      <3> QED
        BY <1>1, <3>1
    <2>2. reads' >= 1
      BY <1>1
    <2> QED
      BY <2>1, <2>2 DEF Forked
  <1>7. Phases'
    BY <1>1 DEF IInv, Phases, Working
  <1>8. OnePlace'
    <2>1. ASSUME NEW i \in 1 .. reads
          PROVE  /\ ~AtParent(i)' /\ ~AtParent(i)
                 /\ InPipe(i)' <=> InPipe(i)
                 /\ InHand(i)' <=> InHand(i)
                 /\ IsSent(i)' <=> IsSent(i)
      BY <1>1, <1>2 DEF AtParent, InPipe, InHand, IsSent, Working
    <2>2. /\ AtParent(reads)' /\ ~InPipe(reads)' /\ ~InHand(reads)'
          /\ ~IsSent(reads)' /\ reads' \notin dropped'
      <3>1. /\ ~Occurs(pipe, reads + 1) /\ ~Occurs(sent, reads + 1)
            /\ reads + 1 \notin dropped
        BY <1>1, OutOfRange DEF IInv, TypeOK
      <3>2. \A c \in Read : item[c] # reads + 1
        BY <1>1 DEF IInv, TypeOK
      <3> QED
        BY <1>1, <3>1, <3>2 DEF AtParent, InPipe, InHand, IsSent
    <2>3. \A i \in 1 .. reads' : i \in 1 .. reads \/ i = reads'
      BY <1>1
    <2> QED
      BY <1>1, <2>1, <2>2, <2>3 DEF IInv, OnePlace
  <1>9. Distinct'
    BY <1>1 DEF IInv, Distinct, Working
  <1> QED
    BY <1>4, <1>5, <1>6, <1>7, <1>8, <1>9 DEF IInv

(* What the parent's write and fork leave alone.                           *)
LEMMA WriteKeeps == IInv /\ ParentWrites => IInv'
  <1> SUFFICES ASSUME IInv, ParentWrites PROVE IInv'
    OBVIOUS
  <1>1. /\ reads' = reads /\ reads \in 1 .. reads
        /\ AtParent(reads)
        /\ UNCHANGED <<inbox, offered, closed, buffer, texts, child, item,
                       fork_fails, sent, dropped, barred>>
        /\ parent' = "fork"
    BY DEF IInv, TypeOK, Forked, ParentWrites, AtParent, reads
  <1>2. /\ pipe' \in Seq(1 .. reads)
        /\ \A i : Occurs(pipe', i) <=> Occurs(pipe, i) \/ i = reads
        /\ NoRepeat(pipe')
    <2>1. pipe' = Append(pipe, reads) /\ pipe \in Seq(1 .. reads)
      BY DEF ParentWrites, IInv, TypeOK
    <2>2. NoRepeat(pipe) /\ ~Occurs(pipe, reads)
      BY <1>1 DEF IInv, OnePlace, Distinct, InPipe
    <2> QED
      BY <1>1, <2>1, <2>2, AppendFacts, AppendOccurs
  <1>3. TypeOK'
    BY <1>1, <1>2 DEF IInv, TypeOK, MessageOf
  <1>4. Opened' /\ Phases'
    BY <1>1 DEF IInv, Opened, Phases, Working, MessageOf
  <1>5. Forked'
    BY <1>1 DEF IInv, Forked, ParentWrites
  <1>6. OnePlace'
    <2>1. ASSUME NEW i \in 1 .. reads
          PROVE  /\ ~AtParent(i)' /\ (AtParent(i) <=> i = reads)
                 /\ InPipe(i)' <=> InPipe(i) \/ i = reads
                 /\ InHand(i)' <=> InHand(i)
                 /\ IsSent(i)' <=> IsSent(i)
      BY <1>1, <1>2 DEF AtParent, InPipe, InHand, IsSent, Working
    <2> QED
      BY <1>1, <2>1 DEF IInv, OnePlace
  <1>7. Distinct'
    BY <1>1, <1>2 DEF IInv, Distinct, Working
  <1> QED
    BY <1>3, <1>4, <1>5, <1>6, <1>7 DEF IInv

(* A fork makes a child that waits, or none.                               *)
LEMMA ForkKeeps == IInv /\ (ParentForks \/ ForkFails) => IInv'
  <1> SUFFICES ASSUME IInv, ParentForks \/ ForkFails PROVE IInv'
    OBVIOUS
  <1>1. /\ reads' = reads /\ reads \in Read
        /\ UNCHANGED <<inbox, offered, closed, buffer, texts, pipe, item,
                       sent, dropped, barred>>
        /\ parent = "fork" /\ parent' = "read"
    BY RelayAssumption
    DEF IInv, TypeOK, Forked, ParentForks, ForkFails, reads, Read
  <1>2. child' = child \/ child' = [child EXCEPT ![reads] = "new"]
    BY DEF ParentForks, ForkFails
  <1>3. child[reads] = "none"
    <2>1. reads \in Nat
      BY <1>1 DEF Read
    <2> QED
      BY <1>1, <2>1 DEF IInv, Forked
  <1>4. \A c \in Read :
          /\ Working(c)' <=> Working(c)
          /\ child'[c] = child[c] \/ (c = reads /\ child'[c] = "new")
    <2>1. \A c \in Read : c # reads => child'[c] = child[c]
      BY <1>2 DEF IInv, TypeOK
    <2>2. child'[reads] \in {"none", "new"}
      BY <1>1, <1>2, <1>3 DEF IInv, TypeOK
    <2> QED
      BY <1>1, <1>3, <2>1, <2>2 DEF Working
  <1>5. TypeOK'
    <2>1. fork_fails' \in 0 .. MaxForkFails
      BY RelayAssumption DEF IInv, TypeOK, ParentForks, ForkFails
    <2> QED
      BY <1>1, <1>2, <2>1 DEF IInv, TypeOK, MessageOf
  <1>6. Opened' /\ Forked' /\ Phases'
    BY <1>1, <1>4 DEF IInv, Opened, Forked, Phases, MessageOf
  <1>7. OnePlace'
    <2>1. ASSUME NEW i \in 1 .. reads
          PROVE  /\ ~AtParent(i)' /\ ~AtParent(i)
                 /\ InPipe(i)' <=> InPipe(i)
                 /\ InHand(i)' <=> InHand(i)
                 /\ IsSent(i)' <=> IsSent(i)
      BY <1>1, <1>4 DEF AtParent, InPipe, InHand, IsSent
    <2> QED
      BY <1>1, <2>1 DEF IInv, OnePlace
  <1>8. Distinct'
    BY <1>1, <1>4 DEF IInv, Distinct
  <1> QED
    BY <1>5, <1>6, <1>7, <1>8 DEF IInv

(* Where the parent is in its loop says nothing else once it has ended.    *)
LEMMA EndsKeeps == IInv /\ ParentEnds => IInv'
  <1> SUFFICES ASSUME IInv, ParentEnds PROVE IInv'
    OBVIOUS
  <1>1. /\ reads' = reads
        /\ UNCHANGED <<inbox, offered, closed, buffer, texts, pipe, child, item,
                       fork_fails, sent, dropped, barred>>
        /\ parent = "read" /\ parent' = "ended" /\ closed
    BY DEF ParentEnds, reads
  <1>2. TypeOK'
    BY <1>1 DEF IInv, TypeOK, MessageOf
  <1>3. Forked'
    <2>1. reads \in Nat /\ reads > 0
      BY <1>1 DEF IInv, TypeOK, Opened, reads
    <2> QED
      BY <1>1, <2>1 DEF IInv, Forked
  <1>4. Opened' /\ Phases' /\ Distinct'
    BY <1>1 DEF IInv, Opened, Phases, Distinct, Working, MessageOf
  <1>5. OnePlace'
    BY <1>1 DEF IInv, OnePlace, AtParent, InPipe, InHand, IsSent, Working
  <1> QED
    BY <1>2, <1>3, <1>4, <1>5 DEF IInv

(* What no step of a child changes.                                        *)
LEMMA ChildFrame ==
  ASSUME UNCHANGED ours
  PROVE  /\ UNCHANGED <<inbox, offered, closed, buffer, parent, texts,
                        fork_fails, reads>>
         /\ \A i : MessageOf(i)' = MessageOf(i)
         /\ \A i : AtParent(i)' <=> AtParent(i)
  BY DEF ours, reads, MessageOf, AtParent

(* A child takes the first buffer out of the pipe.                         *)
LEMMA TakeKeeps ==
  ASSUME IInv, NEW c \in Read, ChildReads(c)
  PROVE  IInv'
  <1> DEFINE i == Head(pipe)
  <1>1. /\ UNCHANGED ours
        /\ child[c] = "new"
        /\ child' = [child EXCEPT
             ![c] = IF MessageOf(i) \in Setup THEN "bind1" ELSE "send"]
        /\ item' = [item EXCEPT ![c] = i]
        /\ UNCHANGED <<sent, dropped, barred>>
    BY DEF ChildReads
  <1>2. /\ i \in 1 .. reads
        /\ pipe' \in Seq(1 .. reads)
        /\ \A j : Occurs(pipe', j) <=> Occurs(pipe, j) /\ j # i
        /\ Occurs(pipe, i)
        /\ NoRepeat(pipe')
    <2>1. pipe' = Tail(pipe) /\ pipe # <<>> /\ pipe \in Seq(1 .. reads)
      BY DEF ChildReads, TakeFromPipe, IInv, TypeOK
    <2>2. NoRepeat(pipe)
      BY DEF IInv, Distinct
    <2> QED
      BY <2>1, <2>2, TailFacts, TailOccurs
  <1> HIDE DEF i
  <1>3. /\ child'[c] \in {"bind1", "send"} /\ item'[c] = i
        /\ child'[c] = "bind1" => MessageOf(i) \in Setup
        /\ Working(c)' /\ ~Working(c)
        /\ \A d \in Read : d # c =>
             /\ child'[d] = child[d] /\ item'[d] = item[d]
             /\ Working(d)' <=> Working(d)
    <2>1. /\ child'[c] = IF MessageOf(i) \in Setup THEN "bind1" ELSE "send"
          /\ item'[c] = i
          /\ \A d \in Read : d # c =>
               child'[d] = child[d] /\ item'[d] = item[d]
      BY <1>1 DEF IInv, TypeOK
    <2> QED
      BY <1>1, <2>1 DEF Working
  <1>4. TypeOK'
    <2>1. child' \in [Read -> {"none", "new", "bind1", "poll1", "bind2",
                              "poll2", "send", "gone"}]
      BY <1>1 DEF IInv, TypeOK
    <2>2. item' \in [Read -> 0 .. reads]
      BY <1>1, <1>2 DEF IInv, TypeOK
    <2> QED
      BY <1>1, <1>2, <2>1, <2>2, ChildFrame DEF IInv, TypeOK
  <1>5. Opened' /\ Forked'
    BY <1>1, <1>3, ChildFrame DEF IInv, Opened, Forked
  <1>6. Phases'
    BY <1>1, <1>2, <1>3, ChildFrame DEF IInv, Phases
  <1>7. OnePlace'
    <2>1. ASSUME NEW j \in 1 .. reads
          PROVE  /\ InPipe(j)' <=> InPipe(j) /\ j # i
                 /\ InHand(j)' <=> InHand(j) \/ j = i
                 /\ IsSent(j)' <=> IsSent(j)
      BY <1>1, <1>2, <1>3 DEF InPipe, InHand, IsSent
    <2>2. InPipe(i)
      BY <1>2 DEF InPipe
    <2> QED
      BY <1>1, <2>1, <2>2, ChildFrame DEF IInv, OnePlace
  <1>8. Distinct'
    <2>1. ~InHand(i)
      BY <1>2 DEF IInv, OnePlace, InPipe
    <2> QED
      BY <1>1, <1>2, <1>3, <2>1 DEF IInv, Distinct, InHand
  <1> QED
    BY <1>4, <1>5, <1>6, <1>7, <1>8 DEF IInv

(* A child binds a port, or has waited for media: it keeps its buffer.     *)
LEMMA WaitKeeps ==
  ASSUME IInv, NEW c \in Read, Bind(c) \/ PollEnds(c)
  PROVE  IInv'
  <1>1. UNCHANGED ours /\ UNCHANGED <<pipe, item, sent, dropped, barred>>
    BY DEF Bind, PollEnds
  <1>2. \E next \in {"poll1", "bind2", "poll2", "send"} :
          child' = [child EXCEPT ![c] = next]
    BY DEF Bind, PollEnds
  <1>3. child[c] \in {"bind1", "poll1", "bind2", "poll2"}
    BY DEF Bind, PollEnds
  <1>4. /\ Working(c) /\ Working(c)'
        /\ \A d \in Read : d # c => child'[d] = child[d]
        /\ \A d \in Read : Working(d)' <=> Working(d)
    BY <1>2, <1>3 DEF IInv, TypeOK, Working
  <1>5. TypeOK'
    <2>1. child' \in [Read -> {"none", "new", "bind1", "poll1", "bind2",
                              "poll2", "send", "gone"}]
      BY <1>2 DEF IInv, TypeOK
    <2> QED
      BY <1>1, <2>1, ChildFrame DEF IInv, TypeOK
  <1>6. Opened' /\ Forked'
    BY <1>1, <1>3, <1>4, ChildFrame DEF IInv, Opened, Forked
  <1>7. Phases'
    BY <1>1, <1>3, <1>4, ChildFrame DEF IInv, Phases
  <1>8. OnePlace' /\ Distinct'
    BY <1>1, <1>4, ChildFrame
    DEF IInv, OnePlace, Distinct, InPipe, InHand, IsSent
  <1> QED
    BY <1>5, <1>6, <1>7, <1>8 DEF IInv

(* A child sends its buffer, or exits because it cannot bind a port.       *)
LEMMA EndKeeps ==
  ASSUME IInv, NEW c \in Read, Send(c) \/ BindFails(c)
  PROVE  IInv' /\ InHand(item[c]) /\ item[c] \in 1 .. reads
  <1> DEFINE i == item[c]
  <1>1. /\ UNCHANGED ours /\ UNCHANGED <<pipe, item>>
        /\ child' = [child EXCEPT ![c] = "gone"]
        /\ child[c] \in {"bind1", "bind2", "send"}
    BY DEF Send, BindFails
  <1>2. /\ Working(c) /\ ~Working(c)' /\ child'[c] = "gone"
        /\ \A d \in Read : d # c =>
             child'[d] = child[d] /\ (Working(d)' <=> Working(d))
    BY <1>1 DEF IInv, TypeOK, Working
  <1>3. i \in 1 .. reads /\ InHand(i)
    BY <1>2 DEF IInv, Phases, InHand
  <1> HIDE DEF i
  <1>4. \A j : InHand(j)' <=> InHand(j) /\ j # i
    BY <1>1, <1>2 DEF IInv, Distinct, InHand, i
  <1>5. \/ /\ UNCHANGED dropped /\ sent' \in Seq(1 .. reads)
           /\ NoRepeat(sent')
           /\ \A j : IsSent(j)' <=> IsSent(j) \/ j = i
        \/ /\ dropped' = dropped \union {i} /\ UNCHANGED sent
           /\ NoRepeat(sent')
           /\ \A j : IsSent(j)' <=> IsSent(j)
    <2>1. ~IsSent(i)
      BY <1>3 DEF IInv, OnePlace
    <2>2. CASE Send(c)
      <3>1. sent' = Append(sent, i) /\ UNCHANGED dropped
        BY <2>2 DEF Send, i
      <3>2. sent \in Seq(1 .. reads) /\ NoRepeat(sent) /\ ~Occurs(sent, i)
        BY <2>1 DEF IInv, TypeOK, Distinct, IsSent
      <3>3. /\ sent' \in Seq(1 .. reads) /\ NoRepeat(sent')
            /\ \A j : Occurs(sent', j) <=> Occurs(sent, j) \/ j = i
        <4>1. Append(sent, i) \in Seq(1 .. reads)
          BY <1>3, <3>2, AppendFacts
        <4>2. /\ NoRepeat(Append(sent, i))
              /\ \A j : Occurs(Append(sent, i), j) <=> Occurs(sent, j) \/ j = i
          BY <1>3, <3>2, AppendOccurs
        <4> QED
          BY <3>1, <4>1, <4>2
      <3> QED
        BY <3>1, <3>3 DEF IsSent
    <2>3. CASE BindFails(c)
      BY <2>3 DEF BindFails, IInv, Distinct, IsSent, i
    <2> QED
      BY <2>2, <2>3
  <1>6. TypeOK'
    <2>1. child' \in [Read -> {"none", "new", "bind1", "poll1", "bind2",
                              "poll2", "send", "gone"}]
      BY <1>1 DEF IInv, TypeOK
    <2>2. sent' \in Seq(1 .. reads) /\ dropped' \subseteq 1 .. reads
      BY <1>3, <1>5 DEF IInv, TypeOK
    <2>3. barred' \subseteq dropped'
      BY DEF Send, BindFails, IInv, TypeOK
    <2> QED
      BY <1>1, <2>1, <2>2, <2>3, ChildFrame DEF IInv, TypeOK
  <1>7. Opened' /\ Forked'
    BY <1>1, <1>2, ChildFrame DEF IInv, Opened, Forked
  <1>8. Phases'
    BY <1>1, <1>2, ChildFrame DEF IInv, Phases
  <1>9. OnePlace'
    <2>1. ASSUME NEW j \in 1 .. reads PROVE InPipe(j)' <=> InPipe(j)
      BY <1>1 DEF InPipe
    <2> QED
      BY <1>1, <1>3, <1>4, <1>5, <2>1, ChildFrame DEF IInv, OnePlace
  <1>10. Distinct'
    BY <1>1, <1>2, <1>5 DEF IInv, Distinct
  <1> QED
    BY <1>3, <1>6, <1>7, <1>8, <1>9, <1>10 DEF IInv, i

LEMMA Invariant == Spec => []IInv
  <1>1. IInv /\ [Next]_vars => IInv'
    <2> SUFFICES ASSUME IInv, [Next]_vars PROVE IInv'
      OBVIOUS
    <2>1. CASE Peer \/ Parent
      BY <2>1, PeerKeeps, ReadKeeps, WriteKeeps, ForkKeeps, EndsKeeps
      DEF Parent
    <2>2. CASE \E c \in Read : Child(c)
      BY <2>2, TakeKeeps, WaitKeeps, EndKeeps DEF Child
    <2>3. CASE UNCHANGED vars
      <3>1. reads' = reads /\ UNCHANGED texts
        BY <2>3 DEF vars, reads
      <3> QED
        BY <2>3, <3>1
        DEF vars, IInv, TypeOK, Opened, Forked, Phases, OnePlace, Distinct,
          AtParent, InPipe, InHand, IsSent, Working, MessageOf
    <2> QED
      BY <2>1, <2>2, <2>3 DEF Next
  <1> QED
    BY Initially, <1>1, PTL DEF Spec

-----------------------------------------------------------------------------
(* Every variable holds a value of its kind.                               *)
THEOREM TypeCorrect == Spec => []TypeOK
  BY Invariant, PTL DEF IInv

-----------------------------------------------------------------------------
(* The refinement.                                                         *)

(* While no request is read, sent or dropped, no ticket changes hands.     *)
LEMMA Unnoticed ==
  ASSUME UNCHANGED <<texts, sent, dropped, barred>>
  PROVE  UNCHANGED <<TakenTickets, SentTickets, DroppedTickets, BarredTickets>>
  BY DEF TakenTickets, SentTickets, DroppedTickets, BarredTickets, Named,
    MessageOf, reads, Resolved, SentItems

(* A buffer is resolved when it has a place among the sent or dropped.     *)
LEMMA ResolvedFacts ==
  ASSUME TypeOK
  PROVE  /\ \A i : i \in SentItems <=> IsSent(i)
         /\ Resolved \subseteq 1 .. reads
         /\ reads \in Nat
  <1>1. \A i : i \in SentItems <=> IsSent(i)
    BY DEF SentItems, IsSent, Occurs
  <1>2. reads \in Nat /\ dropped \subseteq 1 .. reads
    BY DEF TypeOK, reads
  <1>3. \A k \in 1 .. Len(sent) : sent[k] \in 1 .. reads
    BY <1>2 DEF TypeOK
  <1> QED
    BY <1>1, <1>2, <1>3 DEF Resolved, SentItems

(* A read takes a new ticket.                                              *)
LEMMA ReadTakes ==
  ASSUME IInv, IInv', ParentReads \/ ParentReadsEof
  PROVE  Contract!Next
  <1>1. /\ reads \in Nat /\ reads' = reads + 1 /\ reads' <= MaxReads
        /\ \A i \in 1 .. reads : MessageOf(i)' = MessageOf(i)
        /\ MessageOf(reads)' \in Message
        /\ UNCHANGED <<sent, dropped, barred>>
    <2>1. ParentReadsEof => buffer[1] \in Message
      BY DEF IInv, Opened, ParentReadsEof
    <2> QED
      BY <2>1, ReadEffect DEF IInv
  <1>2. /\ Resolved \subseteq 1 .. reads /\ SentItems \subseteq 1 .. reads
        /\ dropped \subseteq 1 .. reads /\ barred \subseteq dropped
        /\ UNCHANGED <<Resolved, SentItems>>
    BY <1>1, ResolvedFacts DEF IInv, TypeOK, Resolved, SentItems
  <1> DEFINE n == reads + 1
             m == MessageOf(reads)'
  <1>3. 1 .. reads' \ Resolved' = (1 .. reads \ Resolved) \union {n}
    BY <1>1, <1>2
  <1>4. TakenTickets' = TakenTickets \union {<<n, m>>}
    <2>1. TakenTickets' =
            {<<i, MessageOf(i)'>> : i \in 1 .. reads' \ Resolved'}
      BY DEF TakenTickets, Named
    <2>2. \A i \in 1 .. reads \ Resolved : MessageOf(i)' = MessageOf(i)
      BY <1>1
    <2>3. texts'[n][1] = m
      BY <1>1 DEF MessageOf
    <2> QED
      BY <1>3, <2>1, <2>2, <2>3 DEF TakenTickets, Named, MessageOf
  <1>5. UNCHANGED <<SentTickets, DroppedTickets, BarredTickets>>
    BY <1>1, <1>2 DEF SentTickets, DroppedTickets, BarredTickets, Named
  <1>6. n \in Read /\ <<n, m>> \in Contract!Ticket
    BY <1>1 DEF Read, Contract!Ticket
  <1>7. \A u \in TakenTickets \union SentTickets
                \union DroppedTickets \union BarredTickets : u[1] # n
    <2>1. n \notin 1 .. reads
      BY <1>1
    <2> QED
      BY <1>2, <2>1
      DEF TakenTickets, SentTickets, DroppedTickets, BarredTickets, Named
  <1> HIDE DEF n, m
  <1>8. Contract!Take(<<n, m>>)
    BY <1>4, <1>5, <1>7 DEF Contract!Take
  <1> QED
    BY <1>6, <1>8 DEF Contract!Next

(* What a child that ends does to the tickets.                             *)
LEMMA Ticket ==
  ASSUME IInv, NEW c \in Read, Send(c) \/ BindFails(c)
  PROVE  /\ item[c] \in 1 .. reads \ Resolved
         /\ <<item[c], MessageOf(item[c])>> \in Contract!Ticket
         /\ <<item[c], MessageOf(item[c])>> \in TakenTickets
         /\ UNCHANGED <<texts, reads>>
  <1>1. InHand(item[c]) /\ item[c] \in 1 .. reads
    BY EndKeeps
  <1>2. item[c] \notin Resolved
    BY <1>1, ResolvedFacts DEF IInv, OnePlace, Resolved
  <1>3. UNCHANGED <<texts, reads>>
    BY DEF Send, BindFails, ours, reads
  <1>4. item[c] \in Read /\ MessageOf(item[c]) \in Message
    BY <1>1, RelayAssumption DEF IInv, TypeOK, Read, reads
  <1> QED
    BY <1>1, <1>2, <1>3, <1>4 DEF Contract!Ticket, TakenTickets, Named

LEMMA SendDelivers ==
  ASSUME IInv, NEW c \in Read, Send(c)
  PROVE  Contract!Next
  <1> DEFINE i == item[c]
             t == <<i, MessageOf(i)>>
  <1>1. /\ i \in 1 .. reads \ Resolved
        /\ t \in Contract!Ticket /\ t \in TakenTickets
        /\ UNCHANGED <<texts, reads>>
    BY Ticket
  <1>2. SentItems' = SentItems \union {i} /\ UNCHANGED <<dropped, barred>>
    <2>1. sent' = Append(sent, i) /\ sent \in Seq(1 .. reads)
      BY DEF Send, IInv, TypeOK
    <2>2. \A j : Occurs(sent', j) <=> Occurs(sent, j) \/ j = i
      BY <1>1, <2>1, AppendOccurs
    <2>3. UNCHANGED <<dropped, barred>>
      BY DEF Send
    <2> QED
      BY <2>2, <2>3 DEF SentItems, Occurs
  <1>3. \A j : MessageOf(j)' = MessageOf(j)
    BY <1>1 DEF MessageOf
  <1> HIDE DEF i
  <1>4. TakenTickets' = TakenTickets \ {t}
    BY <1>1, <1>2, <1>3 DEF TakenTickets, Named, Resolved
  <1>5. /\ SentTickets' = SentTickets \union {t}
        /\ UNCHANGED <<DroppedTickets, BarredTickets>>
    BY <1>2, <1>3 DEF SentTickets, DroppedTickets, BarredTickets, Named
  <1> HIDE DEF t
  <1>6. Contract!Deliver(t)
    BY <1>1, <1>4, <1>5 DEF Contract!Deliver
  <1> QED
    BY <1>1, <1>6 DEF Contract!Next

(* A port no stranger holds is taken by a child with another setup that    *)
(* wants it.                                                               *)
LEMMA Rival ==
  ASSUME IInv, NEW c \in Read, BindFails(c), ~PortFree(WantedPort(c))
  PROVE  \E j \in 1 .. reads \ Resolved :
           j # item[c] /\ <<MessageOf(item[c]), MessageOf(j)>> \in Competitors
  <1>1. PICK d \in Read : WantedPort(c) \in BoundPort(d)
    BY DEF BindFails, PortFree
  <1>2. /\ child[c] \in {"bind1", "bind2"}
        /\ child[d] \in {"poll1", "poll2"}
    BY <1>1 DEF BindFails, BoundPort
  <1>3. /\ WantedPort(c) \in PortsOf(MessageOf(item[c]))
        /\ WantedPort(c) \in PortsOf(MessageOf(item[d]))
    BY <1>1, <1>2 DEF WantedPort, BoundPort, PortsOf
  <1>4. MessageOf(item[c]) \in Setup /\ MessageOf(item[d]) \in Setup
    BY <1>2 DEF IInv, Phases
  <1>5. Working(c) /\ Working(d) /\ c # d
    BY <1>2 DEF Working
  <1>6. item[c] # item[d] /\ item[d] \in 1 .. reads /\ InHand(item[d])
    BY <1>5 DEF IInv, Distinct, Phases, InHand
  <1>7. item[d] \notin Resolved
    BY <1>6, ResolvedFacts DEF IInv, OnePlace, Resolved
  <1>8. <<MessageOf(item[c]), MessageOf(item[d])>> \in Competitors
    BY <1>3, <1>4 DEF Competitors
  <1> QED
    BY <1>6, <1>7, <1>8

LEMMA BindFailsDrops ==
  ASSUME IInv, NEW c \in Read, BindFails(c)
  PROVE  Contract!Next
  <1> DEFINE i == item[c]
             t == <<i, MessageOf(i)>>
  <1>1. /\ i \in 1 .. reads \ Resolved
        /\ t \in Contract!Ticket /\ t \in TakenTickets
        /\ UNCHANGED <<texts, reads>>
    BY Ticket
  <1>2. dropped' = dropped \union {i} /\ UNCHANGED SentItems
    BY DEF BindFails, SentItems
  <1>3. \A j : MessageOf(j)' = MessageOf(j)
    BY <1>1 DEF MessageOf
  <1>4. TakenTickets' = TakenTickets \ {t}
    <2> HIDE DEF i
    <2> QED
      BY <1>1, <1>2, <1>3 DEF TakenTickets, Named, Resolved
  <1>5. UNCHANGED SentTickets
    BY <1>2, <1>3 DEF SentTickets, Named
  <1>6. i \notin dropped /\ barred \subseteq dropped
    BY <1>1 DEF Resolved, IInv, TypeOK
  <1>7. CASE ~PortFree(WantedPort(c))
    <2>1. barred' = barred
      BY <1>7 DEF BindFails
    <2>2. PICK j \in 1 .. reads \ Resolved :
            j # i /\ <<MessageOf(i), MessageOf(j)>> \in Competitors
      BY <1>7, Rival
    <2>3. <<j, MessageOf(j)>> \in TakenTickets \ {t}
      BY <2>2 DEF TakenTickets, Named
    <2>4. \E u \in TakenTickets \ {t} : <<t[2], u[2]>> \in Competitors
      BY <2>2, <2>3
    <2> HIDE DEF i
    <2>5. dropped' \ barred' = (dropped \ barred) \union {i}
      BY <1>2, <1>6, <2>1
    <2>6. DroppedTickets' = DroppedTickets \union {t} /\ UNCHANGED BarredTickets
      BY <1>3, <2>1, <2>5 DEF DroppedTickets, BarredTickets, Named
    <2> HIDE DEF t
    <2>7. Contract!Drop(t)
      BY <1>1, <1>4, <1>5, <2>4, <2>6 DEF Contract!Drop
    <2> QED
      BY <1>1, <2>7 DEF Contract!Next
  <1>8. CASE PortFree(WantedPort(c))
    <2>1. barred' = barred \union {i}
      BY <1>8 DEF BindFails
    <2>2. child[c] \in {"bind1", "bind2"}
      BY DEF BindFails
    <2>3. MessageOf(i) \in Setup /\ MessageOf(i) \in Message
      BY <2>2, RelayAssumption DEF IInv, Phases
    <2>4. <<MessageOf(i), MessageOf(i)>> \in Competitors
      BY <2>3 DEF Competitors, PortsOf
    <2>5. \E m \in Message : <<t[2], m>> \in Competitors
      BY <2>3, <2>4
    <2> HIDE DEF i
    <2>6. dropped' \ barred' = dropped \ barred
      BY <1>2, <1>6, <2>1
    <2>7. BarredTickets' = BarredTickets \union {t} /\ UNCHANGED DroppedTickets
      BY <1>3, <2>1, <2>6 DEF DroppedTickets, BarredTickets, Named
    <2> HIDE DEF t
    <2>8. Contract!Bar(t)
      BY <1>1, <1>4, <1>5, <2>5, <2>7 DEF Contract!Bar
    <2> QED
      BY <1>1, <2>8 DEF Contract!Next
  <1> QED
    BY <1>7, <1>8

(* The relay implements its contract, in whatever order its children run   *)
(* and take buffers out of the pipe: each buffer is delivered or dropped   *)
(* once, and dropped only for a competing setup still under way or because *)
(* a stranger holds one of its ports.                                      *)
THEOREM Implementation == Spec => KeepsContract
  <1>1. Init => Contract!Init
    <2> SUFFICES ASSUME Init PROVE Contract!Init
      OBVIOUS
    <2>1. reads = 0 /\ SentItems = {} /\ dropped = {} /\ barred = {}
      BY DEF Init, reads, SentItems
    <2> QED
      BY <2>1
      DEF Contract!Init, TakenTickets, SentTickets, DroppedTickets,
        BarredTickets, Named
  <1>2. ASSUME IInv, IInv', [Next]_vars
        PROVE  \/ Contract!Next
               \/ UNCHANGED <<TakenTickets, SentTickets, DroppedTickets,
                              BarredTickets>>
    <2>1. CASE Peer \/ ParentWrites \/ ParentForks \/ ForkFails \/ ParentEnds
      BY <2>1, Unnoticed
      DEF Peer, PeerSends, PeerCloses, processes, ParentWrites, ParentForks,
        ForkFails, ParentEnds
    <2>2. CASE ParentReads \/ ParentReadsEof
      BY <1>2, <2>2, ReadTakes
    <2>3. ASSUME NEW c \in Read, ChildReads(c) \/ Bind(c) \/ PollEnds(c)
          PROVE  UNCHANGED <<TakenTickets, SentTickets, DroppedTickets,
                             BarredTickets>>
      BY <2>3, Unnoticed DEF ChildReads, Bind, PollEnds, ours
    <2>4. ASSUME NEW c \in Read, Send(c) \/ BindFails(c)
          PROVE  Contract!Next
      BY <1>2, <2>4, SendDelivers, BindFailsDrops
    <2>5. CASE UNCHANGED vars
      BY <2>5, Unnoticed DEF vars
    <2> QED
      BY <1>2, <2>1, <2>2, <2>3, <2>4, <2>5 DEF Next, Parent, Child
  <1>3. IInv /\ IInv' /\ [Next]_vars =>
          [Contract!Next]_<<TakenTickets, SentTickets, DroppedTickets,
                            BarredTickets>>
    BY <1>2
  <1> QED
    BY <1>1, <1>3, Invariant, PTL DEF Spec, KeepsContract, Contract!Spec

-----------------------------------------------------------------------------
(* A setup of every call survives.                                         *)

(* Competing for ports is transitive when the setups of different calls    *)
(* use different ports: two that compete with a third are of one call.     *)
PortsByCall ==
  \A m1, m2, m3 \in Setup :
    <<m1, m2>> \in Competitors /\ <<m2, m3>> \in Competitors =>
      <<m1, m3>> \in Competitors

(* However the setups of a call get in each other's way, one of them is    *)
(* sent or under way, unless a stranger held a port they want.             *)
THEOREM OneSurvives ==
  ASSUME PortsByCall
  PROVE  Spec => []SomeSetupSurvives
  <1>1. Init => SomeSetupSurvives
    BY DEF Init, SomeSetupSurvives
  <1>2. ASSUME IInv, SomeSetupSurvives, [Next]_vars
        PROVE  SomeSetupSurvives'
    <2>1. ASSUME UNCHANGED <<dropped, barred>>, reads' \in {reads, reads + 1},
                 reads \in Nat, dropped \subseteq 1 .. reads,
                 barred \subseteq dropped,
                 \A i \in 1 .. reads : MessageOf(i)' = MessageOf(i)
          PROVE  SomeSetupSurvives'
      <3>1. ASSUME NEW i \in dropped \ barred
            PROVE  \E j \in (1 .. reads' \ dropped) \union barred :
                     <<MessageOf(i)', MessageOf(j)'>> \in Competitors
        <4>1. PICK j \in (1 .. reads \ dropped) \union barred :
                <<MessageOf(i), MessageOf(j)>> \in Competitors
          BY <1>2 DEF SomeSetupSurvives
        <4>2. /\ j \in (1 .. reads' \ dropped) \union barred
              /\ i \in 1 .. reads /\ j \in 1 .. reads
          BY <2>1
        <4> QED
          BY <2>1, <4>1, <4>2
      <3> QED
        BY <2>1, <3>1 DEF SomeSetupSurvives
    <2>2. /\ reads \in Nat /\ dropped \subseteq 1 .. reads
          /\ barred \subseteq dropped
          /\ UNCHANGED texts => UNCHANGED reads
          /\ UNCHANGED texts => \A i : MessageOf(i)' = MessageOf(i)
      BY <1>2, ResolvedFacts DEF IInv, TypeOK, MessageOf, reads
    <2>3. CASE UNCHANGED <<texts, dropped, barred>>
      BY <2>1, <2>2, <2>3
    <2>4. CASE ParentReads \/ ParentReadsEof
      <3>1. ParentReadsEof => buffer[1] \in Message
        BY <1>2 DEF IInv, Opened, ParentReadsEof
      <3>2. /\ reads' = reads + 1 /\ UNCHANGED <<dropped, barred>>
            /\ \A i \in 1 .. reads : MessageOf(i)' = MessageOf(i)
        BY <1>2, <2>4, <3>1, ReadEffect DEF IInv
      <3> QED
        BY <2>1, <2>2, <3>2
    <2>5. ASSUME NEW c \in Read, BindFails(c)
          PROVE  SomeSetupSurvives'
      <3>1. /\ dropped' = dropped \union {item[c]}
            /\ UNCHANGED <<texts, reads>>
            /\ \A i : MessageOf(i)' = MessageOf(i)
        BY <2>2, <2>5 DEF BindFails, ours
      <3>2. item[c] \in 1 .. reads
        BY <1>2, <2>5, Ticket
      <3>3. CASE PortFree(WantedPort(c))
        <4>1. barred' = barred \union {item[c]}
          BY <2>5, <3>3 DEF BindFails
        <4>2. /\ dropped' \ barred' \subseteq dropped \ barred
              /\ (1 .. reads \ dropped) \union barred
                    \subseteq (1 .. reads \ dropped') \union barred'
          BY <3>1, <4>1
        <4>3. \A i \in dropped' \ barred' :
                \E j \in (1 .. reads \ dropped') \union barred' :
                  <<MessageOf(i), MessageOf(j)>> \in Competitors
          BY <1>2, <4>2 DEF SomeSetupSurvives
        <4> QED
          BY <3>1, <4>3 DEF SomeSetupSurvives
      <3>4. CASE ~PortFree(WantedPort(c))
        <4>1. barred' = barred
          BY <2>5, <3>4 DEF BindFails
        <4>2. PICK j \in 1 .. reads \ dropped' :
                <<MessageOf(item[c]), MessageOf(j)>> \in Competitors
          BY <1>2, <2>5, <3>1, <3>4, Rival DEF Resolved
        <4>3. ASSUME NEW i \in dropped' \ barred'
              PROVE  \E k \in (1 .. reads \ dropped') \union barred' :
                       <<MessageOf(i), MessageOf(k)>> \in Competitors
          <5>1. CASE i = item[c]
            BY <4>2, <5>1
          <5>2. CASE i # item[c]
            <6>1. PICK k \in (1 .. reads \ dropped) \union barred :
                    <<MessageOf(i), MessageOf(k)>> \in Competitors
              BY <1>2, <3>1, <4>1, <5>2 DEF SomeSetupSurvives
            <6>2. CASE k # item[c]
              BY <3>1, <4>1, <6>1, <6>2
            <6>3. CASE k = item[c]
              <7>1. /\ MessageOf(i) \in Setup /\ MessageOf(k) \in Setup
                    /\ MessageOf(j) \in Setup
                BY <4>2, <6>1, <6>3 DEF Competitors
              <7>2. <<MessageOf(i), MessageOf(j)>> \in Competitors
                BY <4>2, <6>1, <6>3, <7>1 DEF PortsByCall
              <7> QED
                BY <7>2
            <6> QED
              BY <6>2, <6>3
          <5> QED
            BY <5>1, <5>2
        <4> QED
          BY <3>1, <4>3 DEF SomeSetupSurvives
      <3> QED
        BY <3>3, <3>4
    <2> QED
      BY <1>2, <2>3, <2>4, <2>5
      DEF Next, vars, Peer, PeerSends, PeerCloses, processes, Parent,
        ParentEnds, ParentWrites, ParentForks, ForkFails, Child, ChildReads,
        Bind, PollEnds, Send, ours
  <1>3. IInv /\ SomeSetupSurvives /\ [Next]_vars => SomeSetupSurvives'
    BY <1>2
  <1> QED
    BY <1>1, <1>3, Invariant, PTL DEF Spec

-----------------------------------------------------------------------------
(* What is in the pipe.                                                    *)

LEMMA WaitingFinite == IsFiniteSet(Waiting) /\ Cardinality(Waiting) \in Nat
  <1>1. IsFiniteSet(Read)
    BY RelayAssumption, FS_Interval DEF Read
  <1>2. Waiting \subseteq Read
    BY DEF Waiting
  <1> QED
    BY <1>1, <1>2, FS_Subset, FS_CardinalityType

(* The pipe holds one buffer for each child that has not read yet, and one *)
(* for each fork that failed or is about to happen, so that no child ever  *)
(* blocks on it: for every number of children and failed forks.            *)
THEOREM PipeIsAccountedFor == Spec => []PipeAccounting
  <1>1. Init => PipeAccounting
    <2> SUFFICES ASSUME Init PROVE PipeAccounting
      OBVIOUS
    <2>1. Waiting = {}
      BY DEF Init, Waiting
    <2> QED
      BY <2>1, FS_EmptySet DEF Init, PipeAccounting
  <1>2. ASSUME IInv, PipeAccounting, [Next]_vars
        PROVE  PipeAccounting'
    <2>1. Len(pipe) \in Nat /\ fork_fails \in Nat
      BY <1>2 DEF IInv, TypeOK
    <2>2. CASE ParentWrites
      <3>1. /\ Len(pipe') = Len(pipe) + 1 /\ Waiting' = Waiting
            /\ fork_fails' = fork_fails
            /\ parent = "write" /\ parent' = "fork"
        BY <1>2, <2>2 DEF ParentWrites, Waiting, IInv, TypeOK
      <3> QED
        BY <1>2, <2>1, <3>1, WaitingFinite DEF PipeAccounting
    <2>3. CASE ParentForks
      <3>1. /\ reads \in Read /\ child[reads] = "none"
            /\ child' = [child EXCEPT ![reads] = "new"]
            /\ parent = "fork" /\ parent' = "read"
            /\ UNCHANGED <<pipe, fork_fails>>
        <4>1. reads \in Read /\ reads \in Nat /\ parent = "fork"
          BY <1>2, <2>3, RelayAssumption
          DEF ParentForks, IInv, TypeOK, Forked, Read, reads
        <4> QED
          BY <1>2, <2>3, <4>1 DEF ParentForks, IInv, Forked
      <3>2. Waiting' = Waiting \union {reads} /\ reads \notin Waiting
        BY <1>2, <3>1 DEF Waiting, IInv, TypeOK
      <3>3. Cardinality(Waiting') = Cardinality(Waiting) + 1
        BY <3>2, WaitingFinite, FS_AddElement
      <3> QED
        BY <1>2, <2>1, <3>1, <3>3, WaitingFinite DEF PipeAccounting
    <2>4. CASE ForkFails
      <3>1. /\ Waiting' = Waiting /\ fork_fails' = fork_fails + 1
            /\ UNCHANGED pipe
            /\ parent = "fork" /\ parent' = "read"
        BY <2>4 DEF ForkFails, Waiting
      <3> QED
        BY <1>2, <2>1, <3>1, WaitingFinite DEF PipeAccounting
    <2>5. ASSUME NEW c \in Read, ChildReads(c)
          PROVE  PipeAccounting'
      <3>1. /\ Waiting' = Waiting \ {c} /\ c \in Waiting
            /\ UNCHANGED <<fork_fails, parent>>
        BY <1>2, <2>5 DEF ChildReads, Waiting, ours, IInv, TypeOK
      <3>2. Len(pipe') = Len(pipe) - 1
        BY <1>2, <2>5, TailFacts DEF ChildReads, TakeFromPipe, IInv, TypeOK
      <3>3. Cardinality(Waiting') = Cardinality(Waiting) - 1
        BY <3>1, WaitingFinite, FS_RemoveElement
      <3> QED
        BY <1>2, <2>1, <3>1, <3>2, <3>3, WaitingFinite DEF PipeAccounting
    <2>6. CASE UNCHANGED <<Waiting, pipe, fork_fails>>
               /\ (parent' = "fork" <=> parent = "fork")
      BY <1>2, <2>6 DEF PipeAccounting
    <2>7. ASSUME NEW c \in Read,
                 Bind(c) \/ BindFails(c) \/ PollEnds(c) \/ Send(c)
          PROVE  UNCHANGED <<Waiting, pipe, fork_fails, parent>>
      <3>1. /\ \E next \in {"poll1", "bind2", "poll2", "send", "gone"} :
                  child' = [child EXCEPT ![c] = next]
            /\ child[c] # "new"
            /\ UNCHANGED <<pipe, fork_fails, parent>>
        BY <2>7 DEF Bind, BindFails, PollEnds, Send, ours
      <3> QED
        BY <1>2, <3>1 DEF Waiting, IInv, TypeOK
    <2>8. CASE \/ Peer \/ UNCHANGED vars
               \/ ParentReads \/ ParentReadsEof \/ ParentEnds
      BY <2>6, <2>8 DEF Peer, PeerSends, PeerCloses, processes, ParentReads,
        ParentReadsEof, ParentEnds, vars, Waiting
    <2> QED
      BY <1>2, <2>2, <2>3, <2>4, <2>5, <2>6, <2>7, <2>8
      DEF Next, Parent, Child
  <1>3. IInv /\ PipeAccounting /\ [Next]_vars => PipeAccounting'
    BY <1>2
  <1> QED
    BY <1>1, <1>3, Invariant, PTL DEF Spec

-----------------------------------------------------------------------------
(* Counting the places of a buffer.                                        *)

LEMMA TimesOccurs ==
  ASSUME NEW S, NEW s \in Seq(S), NEW i, NoRepeat(s)
  PROVE  Times(i, s) = IF Occurs(s, i) THEN 1 ELSE 0
  <1> DEFINE K == {k \in 1 .. Len(s) : s[k] = i}
  <1>1. CASE ~Occurs(s, i)
    BY <1>1, FS_EmptySet DEF Occurs, Times
  <1>2. CASE Occurs(s, i)
    <2>1. PICK k \in 1 .. Len(s) : s[k] = i
      BY <1>2 DEF Occurs
    <2>2. K = {k}
      BY <2>1 DEF NoRepeat
    <2>3. Cardinality({k}) = 1
      BY FS_Singleton
    <2> QED
      BY <1>2, <2>2, <2>3 DEF Times
  <1> QED
    BY <1>1, <1>2

LEMMA HandsOn ==
  ASSUME NEW i, Distinct
  PROVE  Cardinality({c \in Read : Working(c) /\ item[c] = i})
           = IF InHand(i) THEN 1 ELSE 0
  <1> DEFINE H == {c \in Read : Working(c) /\ item[c] = i}
  <1>1. CASE ~InHand(i)
    <2>1. H = {}
      BY <1>1 DEF InHand
    <2> QED
      BY <1>1, <2>1, FS_EmptySet
  <1>2. CASE InHand(i)
    <2>1. PICK c \in Read : Working(c) /\ item[c] = i
      BY <1>2 DEF InHand
    <2>2. H = {c}
      BY <2>1 DEF Distinct
    <2>3. Cardinality({c}) = 1
      BY FS_Singleton
    <2> QED
      BY <1>2, <2>2, <2>3
  <1> QED
    BY <1>1, <1>2

(* Every buffer read is in one place, once: whatever the children take     *)
(* from the pipe, none is sent twice and none is forgotten.                *)
THEOREM NothingLostOrRepeated == Spec => []ExactlyOnce
  <1>1. ASSUME IInv PROVE ExactlyOnce
    <2> SUFFICES ASSUME NEW i \in 1 .. reads
                 PROVE  1 = (IF AtParent(i) THEN 1 ELSE 0) + Times(i, pipe)
                              + Cardinality({c \in Read :
                                               Working(c) /\ item[c] = i})
                              + Times(i, sent)
                              + (IF i \in dropped THEN 1 ELSE 0)
      BY DEF ExactlyOnce, AtParent
    <2>1. /\ Times(i, pipe) = IF InPipe(i) THEN 1 ELSE 0
          /\ Times(i, sent) = IF IsSent(i) THEN 1 ELSE 0
      BY <1>1, TimesOccurs DEF IInv, TypeOK, Distinct, InPipe, IsSent
    <2>2. Cardinality({c \in Read : Working(c) /\ item[c] = i})
            = IF InHand(i) THEN 1 ELSE 0
      BY <1>1, HandsOn DEF IInv
    <2> QED
      BY <1>1, <2>1, <2>2 DEF IInv, OnePlace
  <1> QED
    BY <1>1, Invariant, PTL
=============================================================================
