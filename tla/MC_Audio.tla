------------------------------ MODULE MC_Audio ------------------------------
EXTENDS Audio

CONSTANTS a, b

OneTalker == {a}
TwoTalkers == {a, b}
=============================================================================
