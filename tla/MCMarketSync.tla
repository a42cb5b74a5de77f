----------------------------- MODULE MCMarketSync -----------------------------
EXTENDS MarketSync

const_Exchanges ==
    [ Binance |-> [ccxt |-> "usdm", market |-> "swap", settle |-> "USDT", supported |-> {"usdm", "spot"}],
      Gate |-> [ccxt |-> "gate", market |-> "swap", settle |-> "USDT", supported |-> {"gate"}] ]
const_Patches == {[primary |-> FALSE], [status |-> "disabled"], [ccxt |-> "gate"],
                  [exchange |-> "Gate", primary |-> TRUE]}
Offer(x, name, st, p) == [live |-> TRUE, exchange |-> x, name |-> name, ccxt |-> "", market |-> "",
                          settle |-> "", status |-> st, primary |-> p]
const_Offers == {Offer("Gate", "b", "", TRUE), Offer("Binance", "a", "active", FALSE),
                 Offer("Gate", "", "active", FALSE)}
const_Created == {<<WithDefaults(Offer("Gate", "a", "", TRUE)),
                    WithDefaults(Offer("Binance", "a", "", FALSE))>>}
const_Budgets ==
    {[requests |-> 3, asked |-> 0, failures |-> 0, changes |-> 0, scheduled |-> FALSE],
     [requests |-> 1, asked |-> 1, failures |-> 1, changes |-> 1, scheduled |-> TRUE]}
const_RequestedJobs == {[source |-> <<"Binance", "usdm">>, market |-> "swap", settle |-> "USDT"]}
const_Normal == [b1 |-> "BTC", b2 |-> "BTC", e1 |-> "ETH", bad |-> ""]
M(raw, t) == [raw |-> raw, market |-> t, settle |-> ""]
const_Listings ==
    <<"Binance", "spot">> :> {<<>>}
    @@ <<"Binance", "usdm">> :> {<<M("b1", "swap"), M("b2", ""), M("e1", "spot")>>, <<M("e1", "swap")>>}
    @@ <<"Gate", "gate">> :> {<<M("b1", "swap"), M("bad", "swap")>>, <<M("e1", "swap")>>}
==============================================================================
