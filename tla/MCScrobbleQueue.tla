--------------------------- MODULE MCScrobbleQueue ---------------------------
(* One listen for each service and one of a source that is neither; one    *)
(* crash and one lost answer.                                              *)
EXTENDS ScrobbleQueue

MCListen == {1, 2, 3}
MCSource == <<"lastfm", "listenbrainz", "radio">>
MCService == {"lastfm", "listenbrainz"}
MCMaxCrashes == 1
MCMaxLostAnswers == 1
==============================================================================
