-------------------------- MODULE MCAlertEpisodes --------------------------
EXTENDS AlertEpisodes

CONSTANTS c1, k1, m1, t1, h1, d1, p1, p2, o1

\* Both streams run, both stop, only the messages stop, and nothing can be measured.
MCStreams == {<<"ok", "ok">>, <<"silent", "silent">>, <<"ok", "silent">>, <<"ok", "not_configured">>}
MCWorlds == {{c1}, {k1}, {m1}, {t1}}
=============================================================================
