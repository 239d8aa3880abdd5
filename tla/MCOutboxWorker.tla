---- MODULE MCOutboxWorker ----
EXTENDS OutboxWorker

CONSTANTS w1, w2

MCWorkers == {w1, w2}
MCBacklogs == {<<"unknown", "get">>, <<"invalid", "post">>}
====
