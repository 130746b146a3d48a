----------------------------- MODULE MCShortcut -----------------------------
(* Shortcut with two keys for TLC: ctrl stands for either control key.        *)
EXTENDS Shortcut

SmallAliases == [ctrl |-> {"ctrl_l", "ctrl_r"}, ctrl_l |-> {"ctrl_l"}, ctrl_r |-> {"ctrl_r"}]
SmallCombos == {{"ctrl"}, {"ctrl_l", "ctrl_r"}}
Machine(e, w, po, py) == [evdev |-> e, wayland |-> w, portal |-> po, pynput |-> py]
SmallMachines == {Machine(TRUE, TRUE, TRUE, TRUE), Machine(FALSE, TRUE, TRUE, TRUE),
                  Machine(FALSE, FALSE, TRUE, TRUE), Machine(FALSE, TRUE, FALSE, FALSE)}
=============================================================================
