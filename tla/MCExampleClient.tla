------------------------- MODULE MCExampleClient -------------------------
EXTENDS ExampleClient

\* Two names are enough for a result with a repeated column.
MCFieldNames == {"campaign_id", "budget"}
====
