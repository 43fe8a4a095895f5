----------------------------- MODULE MCPreinject -----------------------------
(* Two tabs, or a tab with a frame. *)
EXTENDS Preinject

CONSTANTS t1, t2

TwoTabs == {<<t1, "top">>, <<t2, "top">>}
TabWithFrame == {<<t1, "top">>, <<t1, "frame">>}
=============================================================================
