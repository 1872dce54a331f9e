-------------------------------- MODULE MCMarket --------------------------------
(* Instances of Market for TLC. *)
EXTENDS Market

MCSymbols == <<"MES", "MNQ">>
OneSymbol == <<"MNQ">>
===============================================================================
