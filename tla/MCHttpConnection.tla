-------------------------- MODULE MCHttpConnection --------------------------
(* HttpConnection with small sets of request kinds. *)
EXTENDS HttpConnection

Get == [hdr |-> 2, body |-> 0, chunked |-> FALSE, large |-> FALSE,
        routed |-> TRUE, connection |-> "other", websocket |-> FALSE,
        wsrouted |-> FALSE]
KeepGet    == [Get EXCEPT !.connection = "keep-alive"]
Post       == [Get EXCEPT !.body = 2]
KeepPost   == [KeepGet EXCEPT !.body = 2]
LongHeader == [KeepGet EXCEPT !.hdr = 4]
NoRoute     == [Get EXCEPT !.routed = FALSE]
KeepNoRoute == [KeepGet EXCEPT !.routed = FALSE, !.body = 1]
Chunked    == [KeepGet EXCEPT !.chunked = TRUE, !.body = 1]
LargePost  == [KeepPost EXCEPT !.large = TRUE]
OtherUpgrade == [Get EXCEPT !.connection = "upgrade"]
WsUpgrade    == [Get EXCEPT !.connection = "upgrade", !.routed = FALSE,
                            !.websocket = TRUE, !.wsrouted = TRUE]
WsBoth       == [WsUpgrade EXCEPT !.routed = TRUE]
WsNoRoute    == [WsUpgrade EXCEPT !.wsrouted = FALSE]

MCFlowKinds == {KeepGet, Post, KeepPost, LongHeader, NoRoute, KeepNoRoute,
                WsUpgrade}
MCAllKinds == {Get, KeepPost, NoRoute, KeepNoRoute, Chunked, LargePost,
               OtherUpgrade, WsUpgrade, WsBoth, WsNoRoute}
MCPatient == {TRUE}
MCAnyClient == {TRUE, FALSE}
MCKeepGet == {KeepGet}
MCChunked == {Chunked}
=============================================================================
