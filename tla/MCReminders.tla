---------------------------- MODULE MCReminders ----------------------------
\* A small instance of Reminders for TLC.
EXTENDS Reminders, TLC

CONSTANTS ann, bob, k1, k2

TwoPeople   == {ann, bob}
OneStart    == {3}
OneSeat     == {1}
TwoTicks    == {k1, k2}
===========================================================================
