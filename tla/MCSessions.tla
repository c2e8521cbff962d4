----------------------------- MODULE MCSessions -----------------------------
(* A small instance of Sessions for TLC: one page in one browser.          *)
EXTENDS Sessions

CONSTANTS ann, laptop, page1

OwnJar == [t \in Tabs |-> laptop]
OnePerson == [t \in Tabs |-> ann]
=============================================================================
