------------------------- MODULE MCSchemaValidator -------------------------
(* Instantiation of SchemaValidator: the two expected tables of main()    *)
(* cut down to two fields, a third table name that is not expected, and   *)
(* two Arrow types, so that every check of the loop can fail.            *)
EXTENDS SchemaValidator

MCTableNames == {"campaigns", "impressions", "temp_table"}
MCFieldNames == {"campaign_id", "budget"}
MCTypes == {"int64", "float32"}
MCExpected ==
    [campaigns   |-> << <<"campaign_id", "int64">>, <<"budget", "float32">> >>,
     impressions |-> << <<"campaign_id", "int64">> >>]
=============================================================================
