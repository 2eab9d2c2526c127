------------------------------ MODULE MCExchange ------------------------------
(* Instances of ExchangeDialog with Quotes for TLC. *)
EXTENDS Quotes, TLC

CONSTANTS thailand, georgia, bangkok, h1, h2, u1, thb, gel

MCHandlers == {h1, h2}
MCUpdaters == {u1}
MCSymmetry == Permutations(MCHandlers)
MCCountries == {thailand, georgia}
MCTargets == {thb, gel}
MCBuys == thailand :> thb @@ georgia :> gel
MCCities == {bangkok}
MCCityCountry == bangkok :> thailand
MCMinAmount == "cash" :> 1 @@ "qrcode" :> 2
=============================================================================
