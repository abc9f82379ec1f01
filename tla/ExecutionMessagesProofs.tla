----------------------- MODULE ExecutionMessagesProofs -----------------------
(* Theorems about ExecutionMessages, for any catalogs, languages, messages  *)
(* and readers: it implements MainTableColumns, and what is shown is the    *)
(* outcome, in a language of the reader's, the same in both tables.         *)
EXTENDS ExecutionMessages, MainTableColumnsProofs

\* A step of the composition is a step of the columns, or leaves them alone.
LEMMA ColumnsStep == [MNext]_mvars => [Next]_vars
BY DEF MNext, Pend, Complete, Store, MPublish, Surroundings, Next, vars, mvars

\* Publications go through the columns the way MainTableColumns says, whatever is
\* published and when it becomes terminal.
THEOREM MessagesImplementColumns == MSpec => Spec
<1>1. MInit => Init
  BY DEF MInit
<1>2. QED
  BY <1>1, ColumnsStep, PTL DEF MSpec, Spec

\* So its theorems hold of the composition.
THEOREM MessagesLegacyIsRecent == MSpec => []LegacyIsRecent
BY MessagesImplementColumns, LegacyWritesAreRecent, PTL

\* Whatever is rendered is the message asked for, in the language asked for, in its
\* primary one or in that of the code, and filled with the values given.
LEMMA RenderedText ==
    ASSUME NEW m, NEW l
    PROVE  /\ Render(m, l).msgid = m.msgid
           /\ Render(m, l).tag \in {<<>>, l, Primary(l)}
           /\ \/ Render(m, l).filled = None
              \/ \A n \in DOMAIN Render(m, l).filled :
                   Render(m, l).filled[n] = m.params[n]
<1> DEFINE tag   == IF UseI18N THEN Found(l, m.msgid) ELSE <<>>
           holes == Catalog[m.msgid][tag]
           fits  == \A n \in DOMAIN holes : n \in DOMAIN m.params /\ m.params[n] \in holes[n]
           text  == [msgid |-> m.msgid, tag |-> tag, filled |-> None]
           full  == [text EXCEPT !.filled = [n \in DOMAIN holes |-> m.params[n]]]
<1>1. tag \in {<<>>, l, Primary(l)}
  BY DEF Found
<1>2. \/ Render(m, l) = text
      \/ Render(m, l) = [msgid |-> m.msgid, tag |-> tag,
                         filled |-> [n \in DOMAIN holes |-> m.params[n]]]
      \/ Render(m, l) = Raw(m)
  BY DEF Render
<1>3. QED
  BY <1>1, <1>2 DEF Raw

\* A reader of a coded message gets one of its renderings.
LEMMA ResolvedText ==
    ASSUME NEW m, NEW l
    PROVE  \E k \in {l, Primary(l), English} : Resolve(Coded(m), l) = Render(m, k)
BY DEF Resolve, Coded

-----------------------------------------------------------------------------
LEMMA MessagesStart == MInit => MInv
BY DEF MInit, Init, MInv, MTypeOK, Decided, Copied, Empty, Written, Serializable

\* What is stored can be JSON.
LEMMA StoredIsSerializable ==
    ASSUME NEW m \in Message, NEW old
    PROVE  Serializable(Fields(m, old).params)
<1>1. Serializable(Safe(m).params)
  BY MessageAssumption DEF Safe, Serializable
<1>2. QED
  BY <1>1 DEF Fields, Plain, Coded, Serializable

\* Storing a message of an open record: its columns are not in the main table yet.
LEMMA StoreStep ==
    ASSUME MInv, NEW a \in Publication, NEW m \in Message, NEW st \in {"pending", "closed"},
           Open(a), Store(a, m, st)
    PROVE  MInv'
<1> USE DEF MInv
<1>1. status[a] # "closed" /\ mainCols[a] = None /\ pc[a] = "waiting"
  BY DEF Open, MTypeOK, Written
<1>2. /\ status' = [status EXCEPT ![a] = st]
      /\ told' = [told EXCEPT ![a] = m]
      /\ cols' = [cols EXCEPT ![a] = Fields(m, cols[a])]
      /\ UNCHANGED <<mainCols, pc, with>>
  BY <1>1 DEF Store, vars, MTypeOK
<1>3. cols'[a] = Fields(m, cols[a]) /\ \A b \in Publication \ {a} : cols'[b] = cols[b]
  BY <1>2 DEF MTypeOK
<1>4. MTypeOK'
  <2>1. status' \in [Publication -> {"running", "pending", "closed"}]
    BY <1>2 DEF MTypeOK
  <2>2. told' \in [Publication -> Message \cup {None}]
    BY <1>2 DEF MTypeOK
  <2>3. DOMAIN cols' = Publication /\ DOMAIN mainCols' = Publication
    BY <1>2 DEF MTypeOK
  <2>4. ASSUME NEW b \in Publication PROVE Serializable(cols'[b].params)
    BY <1>3, StoredIsSerializable DEF MTypeOK
  <2>5. ASSUME NEW b \in Publication
        PROVE  /\ status'[b] # "running" => told'[b] # None
               /\ pc'[b] # "waiting" => status'[b] = "closed"
    BY <1>1, <1>2, MessageAssumption DEF MTypeOK
  <2>6. ASSUME NEW b \in Publication PROVE mainCols'[b] # None => Written(b)'
    BY <1>2 DEF MTypeOK, Written
  <2>7. QED
    BY <2>1, <2>2, <2>3, <2>4, <2>5, <2>6 DEF MTypeOK, Serializable
<1>5. Decided'
  <2>1. told'[a] = m /\ \A b \in Publication \ {a} : told'[b] = told[b]
    BY <1>2 DEF MTypeOK
  <2>2. Fields(m, cols[a]) = Fields(m, cols'[a])
    BY DEF Fields
  <2>3. QED
    BY <1>3, <2>1, <2>2 DEF Decided, Fields
<1>6. Copied'
  <2>1. ASSUME NEW b \in Publication, mainCols'[b] # None
        PROVE  mainCols'[b] = Sent(b)'
    <3>1. b # a /\ mainCols[b] = Sent(b)
      BY <1>1, <1>2, <2>1 DEF Copied
    <3>2. QED
      BY <1>2, <1>3, <3>1 DEF Sent
  <2>2. QED
    BY <2>1 DEF Copied
<1>7. QED
  BY <1>4, <1>5, <1>6

\* A publication that has written its row is over, and nothing else moves what it wrote.
LEMMA WrittenStays ==
    ASSUME TypeOK, [Next]_vars, NEW b \in Publication, Written(b)
    PROVE  Written(b)' /\ with'[b] = with[b]
BY DEF TypeOK, Next, Publish, Ask, AskFails, Detect, DetectFails, Insert, InsertRefused, InsertFails,
       Inserting, Restart, Migrate, Tick, Written, vars

\* Only MPublish moves a record on that waits.
LEMMA OthersWait ==
    ASSUME TypeOK, NEW a \in Publication, Publish(a), NEW b \in Publication, b # a
    PROVE  pc'[b] = pc[b]
BY DEF TypeOK, Publish, Ask, AskFails, Detect, DetectFails, Insert, InsertRefused, InsertFails

LEMMA PublishStep ==
    ASSUME TypeOK, MInv, NEW a \in Publication, MPublish(a)
    PROVE  MInv'
<1> USE DEF MInv
<1>1. [Next]_vars
  BY DEF MPublish, Next
<1>2. UNCHANGED <<status, cols, told>> /\ status[a] = "closed"
  BY DEF MPublish, Ready
<1>3. ASSUME NEW b \in Publication
      PROVE  /\ mainCols'[b] # None => Written(b)' /\ mainCols'[b] = Sent(b)'
             /\ pc'[b] # "waiting" => status[b] = "closed"
  <2>1. CASE mainCols'[b] = mainCols[b]
    <3>1. mainCols[b] # None => Written(b) /\ mainCols[b] = Sent(b)
      BY DEF MTypeOK, Copied
    <3>2. Written(b) => Written(b)' /\ with'[b] = with[b]
      BY <1>1, WrittenStays
    <3>3. QED
      BY <1>2, <2>1, <3>1, <3>2, OthersWait DEF Sent, MTypeOK, MPublish
  <2>2. CASE mainCols'[b] # mainCols[b]
    <3>1. b = a /\ ~ Written(a) /\ Written(a)' /\ mainCols'[a] = Sent(a)
      BY <2>2 DEF MPublish, MTypeOK
    <3>2. with' = with
      BY <3>1 DEF MPublish, Publish, Ask, AskFails, Detect, DetectFails, Insert, InsertRefused,
                  InsertFails, Written, TypeOK
    <3>3. QED
      BY <1>2, <3>1, <3>2 DEF Sent
  <2>3. QED
    BY <2>1, <2>2
<1>4. DOMAIN mainCols' = Publication
  BY DEF MPublish, MTypeOK
<1>5. MTypeOK'
  BY <1>2, <1>3, <1>4 DEF MTypeOK, Serializable
<1>6. Decided'
  BY <1>2 DEF Decided, Fields, Plain, Coded
<1>7. Copied'
  BY <1>3 DEF Copied
<1>8. QED
  BY <1>5, <1>6, <1>7

\* The surroundings move no record that waits, and no message.
LEMMA SurroundingsStep ==
    ASSUME TypeOK, MInv, Surroundings \/ UNCHANGED mvars
    PROVE  MInv'
<1> USE DEF MInv
<1>1. UNCHANGED <<status, cols, told, mainCols>>
  BY DEF Surroundings, mvars
<1>2. [Next]_vars
  BY DEF Surroundings, Next, mvars
<1>3. ASSUME NEW b \in Publication PROVE pc'[b] # "waiting" => pc[b] # "waiting"
  BY DEF Surroundings, Restart, Migrate, Tick, mvars, vars, TypeOK
<1>4. ASSUME NEW b \in Publication, mainCols[b] # None
      PROVE  Written(b)' /\ mainCols[b] = Sent(b)'
  BY <1>1, <1>2, <1>4, WrittenStays DEF MTypeOK, Copied, Sent
<1>5. MTypeOK'
  BY <1>1, <1>3, <1>4 DEF MTypeOK, Serializable
<1>6. Decided'
  BY <1>1 DEF Decided, Fields, Plain, Coded
<1>7. Copied'
  BY <1>1, <1>4 DEF Copied
<1>8. QED
  BY <1>5, <1>6, <1>7

LEMMA MessagesInductive == MSpec => []MInv
<1>1. TypeOK /\ MInv /\ [MNext]_mvars => MInv'
  <2> SUFFICES ASSUME TypeOK, MInv, [MNext]_mvars PROVE MInv'
    OBVIOUS
  <2>1. ASSUME NEW a \in Publication, NEW m \in Message, Pend(a, m) PROVE MInv'
    BY <2>1, StoreStep DEF Pend, Open
  <2>2. ASSUME NEW a \in Publication, NEW m \in Message, Complete(a, m) PROVE MInv'
    BY <2>2, StoreStep DEF Complete
  <2>3. ASSUME NEW a \in Publication, MPublish(a) PROVE MInv'
    BY <2>3, PublishStep
  <2>4. QED
    BY <2>1, <2>2, <2>3, SurroundingsStep DEF MNext
<1>2. QED
  BY <1>1, MessagesStart, MessagesImplementColumns, ColumnsTypeCorrect, PTL DEF MSpec

-----------------------------------------------------------------------------
\* Nothing is published before it is terminal, and nothing is stored that is no JSON.
THEOREM MessagesTypeCorrect == MSpec => []MTypeOK
<1>1. MInv => MTypeOK
  BY DEF MInv
<1>2. QED
  BY <1>1, MessagesInductive, PTL

\* Every reader is shown the message that decided the outcome, with its values.
THEOREM ReadersSeeTheOutcome == MSpec => []OutcomeIsShown
<1>1. ASSUME MInv, NEW a \in Publication, status[a] = "closed"
      PROVE  /\ cols[a].code = Outcome(a).code
             /\ \A l \in Viewer :
                  LET t == Resolve(cols[a], l)
                  IN  /\ t.msgid = Outcome(a).msgid
                      /\ t.filled = None \/ \A n \in DOMAIN t.filled :
                                              t.filled[n] = Outcome(a).params[n]
  <2>1. told[a] # None /\ cols[a] = Fields(told[a], cols[a])
    BY <1>1 DEF MInv, MTypeOK, Decided
  <2>2. CASE told[a].code = None
    BY <2>1, <2>2 DEF Fields, Plain, Raw, Outcome, Resolve
  <2>3. CASE told[a].code # None
    <3>1. cols[a] = Coded(Outcome(a))
      BY <2>1, <2>3 DEF Fields, Outcome
    <3>2. cols[a].code = Outcome(a).code
      BY <3>1 DEF Coded
    <3>3. QED
      BY <3>1, <3>2, ResolvedText, RenderedText
  <2>4. QED
    BY <2>2, <2>3
<1>2. MInv => OutcomeIsShown
  BY <1>1 DEF OutcomeIsShown
<1>3. QED
  BY <1>2, MessagesInductive, PTL

\* No reader is shown a language they cannot expect, wherever the outcome was stored.
THEOREM ReadersSeeTheirLanguage == MSpec => []InReadersLanguage
<1>1. ASSUME MInv, NEW a \in Publication, told[a] # None
      PROVE  /\ cols[a].message.tag \in {<<>>, English}
             /\ \A l \in Viewer :
                  Resolve(cols[a], l).tag \in {<<>>, l, Primary(l), English}
  <2>1. cols[a] = Fields(told[a], cols[a])
    BY <1>1 DEF MInv, Decided
  <2>2. CASE told[a].code = None
    BY <2>1, <2>2 DEF Fields, Plain, Raw, Resolve
  <2>3. CASE told[a].code # None
    <3> DEFINE m == Safe(told[a])
    <3>1. cols[a] = Coded(m)
      BY <2>1, <2>3 DEF Fields
    <3>2. \A l : Primary(Primary(l)) = Primary(l)
      BY DEF Primary
    <3>3. Primary(English) = English
      BY DEF Primary, English
    <3>4. cols[a].message.tag \in {<<>>, English}
      BY <3>1, <3>3, RenderedText DEF Coded
    <3>5. ASSUME NEW l \in Viewer
          PROVE  Resolve(cols[a], l).tag \in {<<>>, l, Primary(l), English}
      <4>1. PICK k \in {l, Primary(l), English} : Resolve(cols[a], l) = Render(m, k)
        BY <3>1, ResolvedText
      <4>2. Render(m, k).tag \in {<<>>, k, Primary(k)}
        BY RenderedText
      <4>3. QED
        BY <4>1, <4>2, <3>2, <3>3
    <3>6. QED
      BY <3>4, <3>5
  <2>4. QED
    BY <2>2, <2>3
<1>2. MInv => InReadersLanguage
  BY <1>1 DEF InReadersLanguage
<1>3. QED
  BY <1>2, MessagesInductive, PTL

\* The main project's readers are shown what this one's are, or the English text.
THEOREM BothTablesAgree == MSpec => []MainShowsTheSame
<1>1. ASSUME MInv, NEW a \in Publication, mainCols[a] # None, NEW l \in Viewer
      PROVE  Resolve(mainCols[a], l) = IF with[a] THEN Resolve(cols[a], l)
                                                  ELSE cols[a].message
  <2>1. mainCols[a] = Sent(a) /\ cols[a] = Fields(told[a], cols[a])
    BY <1>1 DEF MInv, MTypeOK, Written, Decided, Copied
  <2>2. CASE with[a]
    BY <2>1, <2>2 DEF Sent
  <2>3. CASE ~ with[a]
    BY <2>1, <2>3 DEF Sent, Resolve, Fields, Plain, Coded
  <2>4. QED
    BY <2>2, <2>3
<1>2. MInv => MainShowsTheSame
  BY <1>1 DEF MainShowsTheSame
<1>3. QED
  BY <1>2, MessagesInductive, PTL
=============================================================================
