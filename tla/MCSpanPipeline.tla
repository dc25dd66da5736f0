---------------------------- MODULE MCSpanPipeline ----------------------------
(* An instance of SpanPipeline for TLC.                                        *)
EXTENDS SpanPipeline
===============================================================================
