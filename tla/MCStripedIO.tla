----------------------------- MODULE MCStripedIO -----------------------------
(* StripedIO for TLC: the main thread reads blocks ahead, writes and waits;*)
(* a thread of the loader reads at once and writes vertex data.             *)
EXTENDS StripedIO

CONSTANTS main, loader

MainAndLoader ==
  [c \in Caller |-> IF c = main THEN {"read", "writefree"} \cup Waits ELSE {"now", "write"}]

=============================================================================
