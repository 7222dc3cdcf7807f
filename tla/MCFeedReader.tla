---------------------------- MODULE MCFeedReader ----------------------------
(* Two fetch slots, so that a second concurrent fetch could start.           *)
EXTENDS FeedReader
=============================================================================
