-------------------------- MODULE MCProducerClient --------------------------
(* Instances of ProducerClient for TLC: two workers run one campaign.      *)
EXTENDS ProducerClient

PlainProducers == {<<"a">>}
PlainKeys      == {<<"k">>}
OneProducer    == [w \in Workers |-> <<"a">>]
OneKey         == [w \in Workers |-> <<"k">>]
OneDerived     == {DerivedId(<<"a">>, <<"k">>)}
=============================================================================
