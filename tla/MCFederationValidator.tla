------------------------ MODULE MCFederationValidator ------------------------
EXTENDS FederationValidator, TLC

\* Two columns and two types stand for the nine of the join schema: the
\* join's expected schema has both columns, the single-table one only one.
MCFieldNames == {"campaign_id", "clicks"}
MCTypes == {"int64", "float32"}

JoinSchema == ("campaign_id" :> "int64") @@ ("clicks" :> "int64")
CampaignsSchema == "campaign_id" :> "int64"

\* expected_schema_join, expected_schema_join, expected_schema_campaigns
MCExpected == <<JoinSchema, JoinSchema, CampaignsSchema>>
====
