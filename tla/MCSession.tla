----------------------------- MODULE MCSession -----------------------------
\* A small instance of ClientSession for TLC.
EXTENDS ClientSession

CONSTANTS ann, bob

TwoPeople == {ann, bob}

Allowance(tokens, expiries, changes, reloads, errors, moves, others) ==
  [tokens |-> tokens, expiries |-> expiries, changes |-> changes, reloads |-> reloads,
   errors |-> errors, moves |-> moves, others |-> others]

Troubles == {Allowance(2, 1, 1, 1, 0, 0, 0),   \* two sessions, one of which expires, and a reload
             Allowance(1, 0, 0, 1, 0, 0, 1),   \* another tab, or another sign-up
             Allowance(1, 0, 1, 0, 0, 1, 1),   \* a booking that the server changes as well
             Allowance(1, 0, 1, 0, 2, 0, 0),   \* requests that fail twice
             Allowance(1, 0, 0, 1, 2, 1, 0)}   \* requests that fail, a reload, a page left
===========================================================================
