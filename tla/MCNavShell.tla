----------------------------- MODULE MCNavShell -----------------------------
(* NavShell with short chains of loads and a handful of presses. *)
EXTENDS NavShell

McAll == {"menu", "title", "cmenu", "return", "btn", "chedge", "restore", "mount"}
===============================================================================
