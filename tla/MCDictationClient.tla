--------------------------- MODULE MCDictationClient ---------------------------
(***************************************************************************)
(* Instance of DictationClient for TLC, and the gestures of other hotkeys  *)
(* than the defaults; TLC evaluates the assumptions once.                  *)
(***************************************************************************)
EXTENDS DictationClient, MCRecordingDisplay

AllKeys == Modifiers \cup {"a"}
Chords == SUBSET Modifiers

\* A captured hotkey is recognized when the user presses the same keys again,
\* and no other set of keys is taken for it.
CaptureIsRecognized ==
    \A key \in AllKeys, held \in Chords :
        (IsModifier(key) => key \in held) =>
        \A h \in Captured(key, held) :
            /\ MatchesDown(key, held, h)
            /\ \A other \in Chords : MatchesDown(key, other, h) => other = held
ASSUME CaptureIsRecognized

\* All that any typing leads to with a pair of hotkeys.
Typed(k, hotkeys) ==
    {HookKeyDown(k, key, hotkeys, quickly).keys :
         key \in {"ctrl", "shift", "meta", "a"}, quickly \in BOOLEAN}
    \cup {HookKeyUp(k, key, hotkeys, quickly).keys : key \in k.down, quickly \in BOOLEAN}
Reachable(hotkeys) ==
    LET after[n \in Nat] ==
            IF n = 0 THEN {NoKeys}
            ELSE LET before == after[n - 1]
                 IN before \cup UNION {Typed(k, hotkeys) : k \in before}
    IN after[24]
SomeHotkeys ==
    {[key |-> "a", mods |-> {}], [key |-> "a", mods |-> {"ctrl"}],
     [key |-> "meta", mods |-> {"ctrl"}], [key |-> "meta", mods |-> {"ctrl", "shift"}]}
KeysOf(hotkey) == Required(hotkey) \cup (IF IsModifier(hotkey.key) THEN {} ELSE {hotkey.key})

\* Whatever is typed, a recognizer has a press only while a key of its hotkey
\* is down, so that every hold that starts also ends.
PressesEnd ==
    \A quick, long \in SomeHotkeys :
        quick # long =>
        LET all == Reachable([quick |-> quick, long |-> long]) IN
        /\ \A k \in all : Typed(k, [quick |-> quick, long |-> long]) \subseteq all
        /\ \A k \in all :
            /\ k.quick.press # "none" => k.down \cap KeysOf(quick) # {}
            /\ k.long.press # "none" => k.down \cap KeysOf(long) # {}
            /\ k.down = {} => k.quick.press = "none" /\ k.long.press = "none"
ASSUME PressesEnd
===============================================================================
