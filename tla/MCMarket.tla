------------------------------ MODULE MCMarket ------------------------------
(***************************************************************************)
(* Instances of Market for TLC, with rows of the seed instrument_map.      *)
(***************************************************************************)
EXTENDS Market, TLC

MCExchanges == <<"binance", "coingecko", "cryptocompare", "kraken">>
MCBaseAsset ==
    <<"binance", "BTCUSDT">> :> "BTC" @@ <<"binance", "PEPEUSDT">> :> "none" @@
    <<"coingecko", "BTC">> :> "BTC" @@ <<"cryptocompare", "BTC">> :> "BTC" @@
    <<"kraken", "XBT-USDT">> :> "BTC" @@ <<"kraken", "ETH-USDT">> :> "ETH"

MCCoins == {<<"coingecko", "BTC">>, <<"cryptocompare", "BTC">>}

=============================================================================
