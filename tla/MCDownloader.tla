---------------------------- MODULE MCDownloader ----------------------------
(* Two files and three kinds of call: one request of unknown size, as        *)
(* runRealDownloads makes it; two requests in a row; and requests with a     *)
(* known size or without a URL.                                              *)
EXTENDS Downloader

Req(i, u, e) == [id |-> i, url |-> u, expected |-> e]

MCQueues ==
  {<<Req("a", TRUE, 0)>>,
   <<Req("a", TRUE, 1), Req("b", TRUE, 0)>>,
   <<Req("b", TRUE, 1), Req("a", FALSE, 0)>>}
=============================================================================
