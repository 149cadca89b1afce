---------------------------- MODULE MCTextPipeline ----------------------------
(***************************************************************************)
(* TextPipeline over all short texts and all settings; TLC evaluates the   *)
(* assumptions once.                                                       *)
(***************************************************************************)
EXTENDS Integers, Sequences, FiniteSets

Pipeline == INSTANCE TextPipeline

Modes == {"raw", "clean_prompt", "codex_prompt", "message_rewrite", "command", "plain"}
Texts == UNION {[1..n -> {"a", "b", "space", ".", "new line", "tab key"}] : n \in 0..4}
Words(text) == SelectSeq(text, LAMBDA t : t \notin {"space", "newline", "tab", "."})

\* Post-processing keeps the words and is done after one pass: cleaned text is
\* not changed again.
CleaningIsStable ==
    \A text \in Texts, mode \in Modes :
        LET once == Pipeline!ApplyDictationMode(text, mode) IN
        /\ mode # "command" => Len(Words(once)) = Len(Words(text))
        /\ mode # "command" => Pipeline!ApplyDictationMode(once, mode) = once
        /\ mode = "raw" => once = text
        /\ mode \notin {"raw"} => once = Pipeline!Trim(once)
ASSUME CleaningIsStable

Settings == [dictationMode : Modes, appendPeriod : BOOLEAN, appendSpace : BOOLEAN, autoPaste : BOOLEAN,
             autoCopy : BOOLEAN, restoreClipboardAfterPaste : BOOLEAN]
Short == UNION {[1..n -> {"a", "space", "."}] : n \in 0..3}

\* No mark is doubled and no silence becomes text; the history has the raw
\* text beside the one that was typed, whatever failed before.
TextIsFinished ==
    \A text \in Short, s \in Settings :
        LET e == Pipeline!ApplyPostProcessing(Pipeline!BuildEntry(text), s)
            marks(t) == Cardinality({i \in DOMAIN t : t[i] = "."})
        IN  /\ e.originalText = text
            /\ marks(e.text) <= marks(text) + 1
            /\ text # <<>> /\ text[Len(text)] = "." => marks(e.text) = marks(text)
            /\ s.dictationMode # "raw" /\ Words(text) = <<>> /\ marks(text) = 0 => e.text = <<>>
            /\ e.wordCount = Len(Words(text))
ASSUME TextIsFinished

\* What the user asked for happens unless that step fails: typed, kept on the
\* clipboard when asked to (also when typing failed), restored when nothing
\* else wants the text there, and always saved.  Only a text superseded by a
\* newer one is neither typed nor copied, though still saved.
EveryOutputIsServed ==
    \A text \in Short, s \in Settings,
       events \in SUBSET {"superseded", "write fails", "paste fails", "copy fails", "save fails"} :
        LET out == Pipeline!ProcessFinal(text, s, events)
            e == Pipeline!ApplyPostProcessing(Pipeline!BuildEntry(text), s)
            said == e.text # <<>>
            pastes == s.autoPaste /\ said /\ "superseded" \notin events
        IN  /\ out.typed # {} <=> pastes /\ events \cap {"write fails", "paste fails"} = {}
            /\ s.autoCopy /\ said /\ "copy fails" \notin events /\ (s.autoPaste => pastes) => out.clipboard = {e.text}
            /\ s.autoPaste /\ ~s.autoCopy /\ s.restoreClipboardAfterPaste => out.clipboard = {}
            /\ ~s.autoPaste /\ ~s.autoCopy => out.clipboard = {}
            /\ out.history = IF "save fails" \in events THEN {} ELSE {e}
ASSUME EveryOutputIsServed

GroupsAreOrdered ==
    LET rank == [g \in {"Today", "Yesterday", "This Week", "date"} |->
                    CASE g = "Today" -> 3 [] g = "Yesterday" -> 2 [] g = "This Week" -> 1 [] g = "date" -> 0]
    IN  \A a, b \in 0..20 : a <= b => rank[Pipeline!DateGroup(a, 12)] <= rank[Pipeline!DateGroup(b, 12)]
ASSUME GroupsAreOrdered
===============================================================================
