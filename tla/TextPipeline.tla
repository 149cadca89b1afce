----------------------------- MODULE TextPipeline -----------------------------
(***************************************************************************)
(* What becomes of the final text of a dictation: the entry, its           *)
(* post-processing and the outputs (main/services/pipeline.ts).            *)
(*                                                                         *)
(* Text is a sequence of tokens: "space", the white space a command makes  *)
(* ("newline", "tab"), words in lower case and their capitalized forms,    *)
(* the spoken commands (single tokens), and "." for every mark that ends a *)
(* sentence.                                                               *)
(***************************************************************************)
EXTENDS Integers, Sequences, SequencesExt

White == {"space", "newline", "tab"}
Commands == ("new line" :> <<"newline">>) @@ ("new paragraph" :> <<"newline", "newline">>)
                @@ ("tab key" :> <<"tab">>)
Upper == ("a" :> "A") @@ ("b" :> "B")

Ends(text, tokens) == text # <<>> /\ text[Len(text)] \in tokens
\* trim()
Trim(text) ==
    LET solid == {i \in DOMAIN text : text[i] \notin White}
    IN  IF solid = {} THEN <<>>
        ELSE SubSeq(text, CHOOSE i \in solid : \A j \in solid : i <= j,
                          CHOOSE i \in solid : \A j \in solid : i >= j)

NormalizeWhitespace(text) ==
    Trim(FoldLeft(LAMBDA done, t :
                      IF t \notin White THEN Append(done, t)
                      ELSE IF Ends(done, {"space"}) THEN done ELSE Append(done, "space"), <<>>, text))

\* A word at the start, or after a mark and white space, begins with a capital.
StartsSentence(text, i) ==
    i = 1 \/ \E j \in 1..i - 2 : text[j] = "." /\ \A k \in j + 1..i - 1 : text[k] \in White
SentenceCase(text) ==
    [i \in DOMAIN text |-> IF text[i] \in DOMAIN Upper /\ StartsSentence(text, i) THEN Upper[text[i]] ELSE text[i]]
EnsureTerminalPunctuation(text) ==
    IF text = <<>> \/ Ends(text, {"."}) THEN text ELSE Append(text, ".")

ApplyDictationMode(text, mode) ==
    LET cleaned == NormalizeWhitespace(text)
    IN  CASE mode = "raw" -> text
          [] mode \in {"clean_prompt", "codex_prompt", "message_rewrite"} ->
                 EnsureTerminalPunctuation(SentenceCase(cleaned))
          [] mode = "command" ->
                 Trim(FoldLeft(LAMBDA done, t :
                                   done \o IF t \in DOMAIN Commands THEN Commands[t] ELSE <<t>>, <<>>, cleaned))
          [] OTHER -> cleaned

WordCount(text) == Len(SelectSeq(text, LAMBDA t : t \notin White \cup {"."}))
BuildEntry(frame) == [text |-> frame, originalText |-> frame, wordCount |-> WordCount(frame)]
ApplyPostProcessing(entry, settings) ==
    LET moded == ApplyDictationMode(entry.text, settings.dictationMode)
        ended == IF settings.appendPeriod /\ moded # <<>> /\ ~Ends(moded, {"."}) THEN Append(moded, ".") ELSE moded
        spaced == IF settings.appendSpace /\ ended # <<>> THEN Append(ended, "space") ELSE ended
    IN  [entry EXCEPT !.text = spaced, !.originalText = entry.text, !.wordCount = WordCount(spaced)]

\* dispatchToOutputs.  The outputs are [typed, clipboard, history], `events`
\* what goes wrong; an output that fails stops no other.
Outputs == [typed |-> {}, clipboard |-> {}, history |-> {}]
Copied(out, entry, events) == IF "copy fails" \in events THEN out ELSE [out EXCEPT !.clipboard = {entry.text}]
\* pasteText: it does nothing for a text that a newer one supersedes, and
\* leaves on the clipboard what it has written unless it restores.
Pasted(out, entry, restore, events) ==
    LET written == IF restore THEN out ELSE [out EXCEPT !.clipboard = {entry.text}]
    IN  IF "superseded" \in events THEN out
        ELSE IF "write fails" \in events THEN out
        ELSE IF "paste fails" \in events THEN written
        ELSE [written EXCEPT !.typed = {entry.text}]
Throws(events) == "superseded" \notin events /\ events \cap {"write fails", "paste fails"} # {}
ToClipboard(out, entry, settings, events) ==
    LET pasted == Pasted(out, entry, settings.restoreClipboardAfterPaste /\ ~settings.autoCopy, events)
    IN  IF entry.text = <<>> THEN out
        ELSE IF settings.autoPaste
        THEN IF Throws(events) /\ settings.autoCopy THEN Copied(pasted, entry, events) ELSE pasted
        ELSE IF settings.autoCopy THEN Copied(out, entry, events) ELSE out
Dispatch(entry, settings, events) ==
    LET out == ToClipboard(Outputs, entry, settings, events)
    IN  IF "save fails" \in events THEN out ELSE [out EXCEPT !.history = {entry}]

ProcessFinal(frame, settings, events) ==
    Dispatch(ApplyPostProcessing(BuildEntry(frame), settings), settings, events)

\* computeDateGroup: days are whole, as the clock changes are left out; older
\* entries are grouped by their date.
DateGroup(day, today) ==
    IF day >= today THEN "Today" ELSE IF day >= today - 1 THEN "Yesterday"
    ELSE IF day >= today - 7 THEN "This Week" ELSE "date"
===============================================================================
