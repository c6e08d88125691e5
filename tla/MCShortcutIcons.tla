---------------------------- MODULE MCShortcutIcons ----------------------------
(* ShortcutIcons on a small instance: two shortcuts can share the one icon. *)
EXTENDS ShortcutIcons

CONSTANTS h1, h2, s1, s2, i1, n1, n2

TwoHandlers == {h1, h2}
TwoShortcuts == {s1, s2}
OneIcon == {i1}
TwoNames == {n1, n2}
===============================================================================
