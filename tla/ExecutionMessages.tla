-------------------------- MODULE ExecutionMessages --------------------------
(***************************************************************************)
(* What a record says of its outcome (messages.py): the text in English,   *)
(* and one in each of LANGUAGES, rendered when the outcome is stored; how  *)
(* it reaches the main table through the publications of MainTableColumns; *)
(* and what a reader of either table is shown.                             *)
(*                                                                         *)
(* A language is the sequence of the parts of its normalized code, a text  *)
(* is [msgid, tag, filled]: which message, in the words of which catalog   *)
(* (<<>> is the msgid itself), with which values (None is unformatted).    *)
(***************************************************************************)
EXTENDS MainTableColumns

CONSTANTS
    None,
    Languages,      \* settings.LANGUAGES
    LanguageCode,   \* settings.LANGUAGE_CODE
    UseI18N,        \* settings.USE_I18N
    Msgid,
    Catalog,        \* for each msgid and each language with a translation, and for
                    \* <<>>: the values each of its placeholders can format
    Unsafe,         \* parameter values that are no scalars or no JSON
    Message,        \* [code, msgid, params]; code None for a plain text
    InvalidMessage, \* INVALID_MESSAGE
    Says,           \* bound: what the parties may say of each record
    Viewer          \* languages readers ask for

ASSUME CatalogAssumption ==
    \A id \in Msgid : <<>> \in DOMAIN Catalog[id]
ASSUME MessageAssumption ==
    /\ InvalidMessage \in Message /\ InvalidMessage.params = None
    /\ None \notin Message
    /\ \A m \in Message : m.msgid \in Msgid
    /\ \A a \in Publication : Says[a] \subseteq Message

VARIABLES
    status, \* of each record: "running", "pending", or "closed" for both outcomes
    cols,   \* its four message columns
    mainCols, \* those of its main row, None before it is written
    told    \* history: the message that decided the outcome, or left it open

mvars == <<vars, status, cols, mainCols, told>>

English    == <<"en">>
Primary(l) == <<l[1]>>

FoundOrDefault(l, id) ==    \* mutant: Django's own fallback, to LANGUAGE_CODE
    IF l \in DOMAIN Catalog[id] THEN l
    ELSE IF LanguageCode \in DOMAIN Catalog[id] THEN LanguageCode
    ELSE <<>>
\* _MessageTranslation: the catalog of a language, then of its primary language,
\* never of another.
Found(l, id) ==
    IF l \in DOMAIN Catalog[id] THEN l
    ELSE IF Primary(l) \in DOMAIN Catalog[id] THEN Primary(l)
    ELSE <<>>

Raw(m) == [msgid |-> m.msgid, tag |-> <<>>, filled |-> None]

\* ExecutionMessage.render
Render(m, l) ==
    LET tag   == IF UseI18N THEN Found(l, m.msgid) ELSE <<>>
        holes == Catalog[m.msgid][tag]
        fits  == \A n \in DOMAIN holes : n \in DOMAIN m.params /\ m.params[n] \in holes[n]
    IN  CASE m.params = None -> [msgid |-> m.msgid, tag |-> tag, filled |-> None]
          [] m.params # None /\ fits ->
               [msgid |-> m.msgid, tag |-> tag, filled |-> [n \in DOMAIN holes |-> m.params[n]]]
          [] OTHER -> Raw(m)

\* json_params
Serializable(params) == params = None \/ \A n \in DOMAIN params : params[n] \notin Unsafe

SafeAny(m) == m    \* mutant: what cannot be JSON is stored as it is
\* _safe
Safe(m) == IF Serializable(m.params) THEN m ELSE InvalidMessage

Plain(m) == [message |-> Raw(m), code |-> None, params |-> None, i18n |-> None]
Coded(m) ==
    [message |-> Render(m, English), code |-> m.code, params |-> m.params,
     i18n    |-> [l \in Languages |-> Render(m, l)]]

FieldsKept(m, old) ==       \* mutant: a plain text leaves the other columns alone
    IF m.code = None THEN [old EXCEPT !.message = Raw(m)] ELSE Coded(Safe(m))
\* message_fields, over the columns as they were.
Fields(m, old) == IF m.code = None THEN Plain(m) ELSE Coded(Safe(m))

\* resolve_message
Resolve(c, l) ==
    IF c.i18n = None THEN c.message
    ELSE IF l \in DOMAIN c.i18n THEN c.i18n[l]
    ELSE IF Primary(l) \in DOMAIN c.i18n THEN c.i18n[Primary(l)]
    ELSE IF English \in DOMAIN c.i18n THEN c.i18n[English]
    ELSE c.message

-----------------------------------------------------------------------------
(* The record, and its publication. *)

Empty == [message |-> None, code |-> None, params |-> None, i18n |-> None]

MInit ==
    /\ Init
    /\ status = [a \in Publication |-> "running"]
    /\ cols = [a \in Publication |-> Empty]
    /\ mainCols = [a \in Publication |-> None]
    /\ told = [a \in Publication |-> None]

OpenAlways(a) == TRUE    \* mutant: the completion does not ask for the status
\* The filter of finish_record.
Open(a) == status[a] \in {"running", "pending"}

Store(a, m, st) ==
    /\ status' = [status EXCEPT ![a] = st]
    /\ cols' = [cols EXCEPT ![a] = Fields(m, cols[a])]
    /\ told' = [told EXCEPT ![a] = IF status[a] = "closed" THEN @ ELSE m]
    /\ UNCHANGED <<vars, mainCols>>

\* The task hands over to its agent, which may have answered already.
Pend(a, m) == status[a] = "running" /\ m \in Says[a] /\ Store(a, m, "pending")

\* The worker, the agent's callback or the timeout completes the record.
Complete(a, m) == Open(a) /\ m \in Says[a] /\ Store(a, m, "closed")

ReadyCoded(a) == status[a] = "closed" /\ cols[a].code # None   \* mutant: plain texts are kept back
\* write_main_record publishes what is stored, once it is terminal.
Ready(a) == status[a] = "closed"

\* The columns DbTransport.publish names, and their values.
Sent(a) == IF with[a] THEN cols[a] ELSE [cols[a] EXCEPT !.code = None, !.params = None,
                                                        !.i18n = None]

MPublish(a) ==
    /\ Ready(a)
    /\ Publish(a)
    /\ mainCols' = IF ~ Written(a) /\ Written(a)' THEN [mainCols EXCEPT ![a] = Sent(a)]
                                                  ELSE mainCols
    /\ UNCHANGED <<status, cols, told>>

Surroundings ==
    /\ (\E p \in Process : Restart(p)) \/ Migrate \/ Tick
    /\ UNCHANGED <<status, cols, mainCols, told>>

MNext ==
    \/ \E a \in Publication, m \in Message : Pend(a, m) \/ Complete(a, m)
    \/ \E a \in Publication : MPublish(a)
    \/ Surroundings

MSpec == MInit /\ [][MNext]_mvars

\* Maintenance completes what nobody else does, and retries what is not written.
MFairSpec ==
    /\ MSpec
    /\ \A a \in Publication : /\ WF_mvars(\E m \in Message : Complete(a, m))
                              /\ WF_mvars(MPublish(a))

-----------------------------------------------------------------------------
(* Properties. *)

MTypeOK ==
    /\ status \in [Publication -> {"running", "pending", "closed"}]
    /\ told \in [Publication -> Message \cup {None}]
    /\ DOMAIN cols = Publication /\ DOMAIN mainCols = Publication
    /\ \A a \in Publication :
         /\ status[a] # "running" => told[a] # None
         /\ pc[a] # "waiting" => status[a] = "closed"
         /\ mainCols[a] # None => Written(a)
         /\ Serializable(cols[a].params)

\* Behind the next ones: the columns are those of the message that decided, and the
\* main row is a copy of them.
Decided == \A a \in Publication : told[a] # None => cols[a] = Fields(told[a], cols[a])
Copied  == \A a \in Publication : mainCols[a] # None => mainCols[a] = Sent(a)
MInv    == MTypeOK /\ Decided /\ Copied

Outcome(a) == IF told[a].code = None THEN told[a] ELSE Safe(told[a])

\* What a reader is shown in any language is the message that decided the outcome,
\* with its values: nothing of an earlier pending message, or of one that came too
\* late, is mixed into it (finish_record, message_fields, resolve_message).
OutcomeIsShown ==
    \A a \in Publication : status[a] = "closed" =>
      /\ cols[a].code = Outcome(a).code
      /\ \A l \in Viewer :
           LET t == Resolve(cols[a], l)
           IN  /\ t.msgid = Outcome(a).msgid
               /\ t.filled = None \/ \A n \in DOMAIN t.filled : t.filled[n] = Outcome(a).params[n]

\* A text is in the reader's language, in its primary one or in English, whatever
\* LANGUAGE_CODE of the worker that stored it; `message` is English
\* (_MessageTranslation, message_fields).
InReadersLanguage ==
    \A a \in Publication : told[a] # None =>
      /\ cols[a].message.tag \in {<<>>, English}
      /\ \A l \in Viewer :
           Resolve(cols[a], l).tag \in {<<>>, l, Primary(l), English}

\* A reader of the main project is shown what a reader of this one is, for good, or
\* the English text when the main table had no columns for more; also when a late
\* completion, a refused INSERT or a migration came in between.
MainShowsTheSame ==
    \A a \in Publication : mainCols[a] # None => \A l \in Viewer :
      Resolve(mainCols[a], l) = IF with[a] THEN Resolve(cols[a], l) ELSE cols[a].message

\* Seen without the messages this is MainTableColumns, fairness included: what is
\* proved there holds here.
ImplementsColumns == FairSpec
=============================================================================
