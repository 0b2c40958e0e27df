------------------------------- MODULE Tables -------------------------------
(***************************************************************************)
(* Tables that change: functions of one entry, with one entry set, or with *)
(* the entries of another over their own.                                  *)
(***************************************************************************)

Entry(x, y) == [z \in {x} |-> y]

With(f, x, y) == [z \in DOMAIN f \cup {x} |-> IF z = x THEN y ELSE f[z]]

Over(g, f) == [z \in DOMAIN f \cup DOMAIN g |-> IF z \in DOMAIN g THEN g[z] ELSE f[z]]

=============================================================================
