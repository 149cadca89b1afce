-------------------------------- MODULE Hotkeys --------------------------------
(***************************************************************************)
(* How the keyboard hook turns keys into gestures                          *)
(* (main/services/hotkey.ts, hotkey-gesture.ts, keycodes.ts).              *)
(*                                                                         *)
(* A hotkey is [key, mods]; left and right modifiers are one key.  The     *)
(* clock is abstracted: the caller of KeyDown says whether the last tap is *)
(* recent enough (DOUBLE_TAP_WINDOW_MS), the caller of KeyUp whether the   *)
(* press was short (TAP_MAX_MS).  A recognizer is [press, tap]: the kind   *)
(* of the press under way and whether a tap may be followed by a second.   *)
(***************************************************************************)
EXTENDS Naturals

Modifiers == {"ctrl", "alt", "shift", "meta"}
IsModifier(key) == key \in Modifiers

Required(hotkey) ==
    hotkey.mods \cup IF IsModifier(hotkey.key) THEN {hotkey.key} ELSE {}

\* `held` are the modifiers that are down, the key of the event included.
MatchesDown(key, held, hotkey) ==
    IF IsModifier(hotkey.key) THEN key \in Required(hotkey) /\ held = Required(hotkey)
    ELSE key = hotkey.key /\ held = hotkey.mods

MatchesRelease(key, hotkey) ==
    IF IsModifier(hotkey.key) THEN key \in Required(hotkey) ELSE key = hotkey.key

StillHeld(held, hotkey) == IsModifier(hotkey.key) /\ held \cap Required(hotkey) # {}

AtRest == [press |-> "none", tap |-> FALSE]

\* Each answers with the recognizer and the action it recognized.
KeyDown(r, key, held, hotkey, recent) ==
    IF r.press # "none" \/ ~MatchesDown(key, held, hotkey)
    THEN [rec |-> r, action |-> "none"]
    ELSE IF r.tap /\ recent
         THEN [rec |-> [press |-> "double-tap", tap |-> FALSE], action |-> "double-tap"]
         ELSE [rec |-> [r EXCEPT !.press = "hold"], action |-> "hold-start"]

KeyUp(r, key, held, hotkey, short) ==
    IF r.press = "none" \/ ~MatchesRelease(key, hotkey) \/ StillHeld(held, hotkey)
    THEN [rec |-> r, action |-> "none"]
    ELSE IF r.press = "double-tap" THEN [rec |-> AtRest, action |-> "none"]
    ELSE [rec |-> [press |-> "none", tap |-> short], action |-> "hold-end"]

\* The two handlers of the hook.  The long hotkey goes first, and takes the
\* press away from the quick one; a tap of it is the same as a hold.
HookKeyDown(k, key, hotkeys, recent) ==
    LET down == k.down \cup {key}
        held == down \cap Modifiers
        long == KeyDown(k.long, key, held, hotkeys.long, FALSE)
        quick == KeyDown(k.quick, key, held, hotkeys.quick, recent)
    IN IF long.action # "none"
       THEN [keys |-> [down |-> down, quick |-> AtRest, long |-> long.rec], action |-> "long"]
       ELSE [keys |-> [down |-> down, quick |-> quick.rec, long |-> long.rec],
             action |-> quick.action]

HookKeyUp(k, key, hotkeys, short) ==
    LET down == k.down \ {key}
        held == down \cap Modifiers
        quick == KeyUp(k.quick, key, held, hotkeys.quick, short)
    IN [keys |-> [down |-> down, quick |-> quick.rec,
                  long |-> KeyUp(k.long, key, held, hotkeys.long, FALSE).rec],
        action |-> quick.action]

NoKeys == [down |-> {}, quick |-> AtRest, long |-> AtRest]

\* What the capture of a new hotkey takes a key event for: at most one hotkey.
\* A modifier counts only if it is Meta and another is held.
CapturedChord(key, held) ==
    IF key = "meta" /\ held \cap {"ctrl", "alt", "shift"} # {}
    THEN {[key |-> key, mods |-> held \ {"meta"}]} ELSE {}
Captured(key, held) ==
    IF IsModifier(key) THEN CapturedChord(key, held) ELSE {[key |-> key, mods |-> held]}

\* The defaults: Ctrl+Win and Ctrl+Shift+Win.
DefaultHotkeys ==
    [quick |-> [key |-> "meta", mods |-> {"ctrl"}],
     long |-> [key |-> "meta", mods |-> {"ctrl", "shift"}]]
===============================================================================
