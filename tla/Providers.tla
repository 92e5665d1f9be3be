------------------------------ MODULE Providers ------------------------------
(* The provider table of providers.py: what each provider supports and     *)
(* what it charges.  Fees are a fixed part in half rupees and a percentage *)
(* in units of 0.01 %; success rates are in units of 0.1 %.  min_amount,   *)
(* max_amount and the currencies of a method config are never read by the  *)
(* program, every config is enabled, and is_active is never read either.   *)
EXTENDS Naturals, FiniteSets

CONSTANT Registry \* ProviderRegistry._providers: provider id -> provider

Methods == {"upi", "visa", "mastercard", "rupay", "net_banking",
            "bank_transfer", "wallet", "paypal", "crypto"}
Currencies == {"INR", "USD", "EUR", "GBP", "SGD", "AED", "NPR", "BDT", "LKR"}

SettlementSpeed == {"instant", "real_time", "t+1", "t+2", "t+3", "weekly"}

PaymentMethodConfig == [
  speed : SettlementSpeed, fixed : Nat, percentage : Nat, success : 1..1000]

\* What providers are: none lists a method that always fails.
ASSUME RegistryAssumption ==
  /\ IsFiniteSet(DOMAIN Registry)
  /\ \A id \in DOMAIN Registry : Registry[id].latency \in Nat
  /\ \A id \in DOMAIN Registry : Registry[id].currencies \subseteq Currencies
  /\ \A id \in DOMAIN Registry : \A m \in DOMAIN Registry[id].configs :
       Registry[id].configs[m] \in PaymentMethodConfig

Config(speed, fixed, percentage, success) ==
  [speed |-> speed, fixed |-> fixed, percentage |-> percentage, success |-> success]

\* PaymentMethodConfig(method): what a method without a config costs.
DefaultConfig == Config("t+1", 0, 0, 950)

Razorpay == [
  currencies |-> {"INR", "USD", "EUR", "GBP", "SGD"}, latency |-> 180, speed |-> "t+1",
  methods |-> {"upi", "visa", "mastercard", "rupay", "net_banking", "wallet"},
  configs |-> [upi |-> Config("instant", 0, 20, 987),
               visa |-> Config("t+2", 4, 200, 961),
               mastercard |-> Config("t+2", 4, 200, 958),
               rupay |-> Config("t+1", 2, 120, 972),
               net_banking |-> Config("t+1", 10, 50, 935),
               wallet |-> Config("instant", 0, 150, 978)]]

Cashfree == [
  currencies |-> {"INR", "USD", "EUR", "SGD", "AED"}, latency |-> 150, speed |-> "t+1",
  methods |-> {"upi", "visa", "mastercard", "rupay", "bank_transfer", "wallet"},
  configs |-> [upi |-> Config("instant", 0, 15, 991),
               visa |-> Config("t+1", 3, 180, 965),
               mastercard |-> Config("t+1", 3, 180, 962),
               rupay |-> Config("t+1", 2, 100, 975),
               bank_transfer |-> Config("t+1", 6, 30, 985),
               wallet |-> Config("instant", 0, 120, 980)]]

\* RuPay and wallet are listed, and have no config.
PayU == [
  currencies |-> {"INR", "USD", "EUR", "GBP"}, latency |-> 220, speed |-> "t+2",
  methods |-> {"upi", "visa", "mastercard", "rupay", "net_banking", "wallet"},
  configs |-> [upi |-> Config("instant", 0, 20, 985),
               visa |-> Config("t+2", 5, 220, 955),
               mastercard |-> Config("t+2", 5, 220, 952),
               net_banking |-> Config("t+1", 8, 40, 930)]]

UpiNpci == [
  currencies |-> {"INR"}, latency |-> 80, speed |-> "instant", methods |-> {"upi"},
  configs |-> [upi |-> Config("instant", 0, 0, 995)]]

PaypalIntl == [
  currencies |-> {"USD", "EUR", "GBP", "SGD", "INR"}, latency |-> 350, speed |-> "t+1",
  methods |-> {"paypal", "visa", "mastercard"},
  configs |-> [paypal |-> Config("t+1", 10, 350, 970),
               visa |-> Config("t+2", 6, 290, 960),
               mastercard |-> Config("t+2", 6, 290, 958)]]

\* ProviderRegistry._load_defaults
DefaultRegistry == [
  razorpay |-> Razorpay, cashfree |-> Cashfree, payu |-> PayU,
  upi_npci |-> UpiNpci, paypal_intl |-> PaypalIntl]

-----------------------------------------------------------------------------
\* The pairs of different currencies FX_RATES has a rate for.
FxPairs ==
  (UNION {{<<hub, c>>, <<c, hub>>} : hub \in {"INR", "USD"},
                                     c \in {"EUR", "GBP", "SGD", "AED"}})
    \union {<<"INR", "USD">>, <<"USD", "INR">>}

\* FX_SPREAD, in units of 0.01 %.
FxSpread == 30

ConfigOf(provider, method) ==
  IF method \in DOMAIN provider.configs THEN provider.configs[method] ELSE DefaultConfig

SupportsMethod(provider, method) == method \in provider.methods

SupportsCurrency(provider, currency) == currency \in provider.currencies

\* get_fee in paise, for an amount in hundreds of rupees.
Fee(provider, method, amount) ==
  LET c == ConfigOf(provider, method) IN 50 * c.fixed + amount * c.percentage

\* find_capable and find_by_currency, as sets of provider ids.
FindByCurrency(registry, currency) ==
  {id \in DOMAIN registry : SupportsCurrency(registry[id], currency)}

FindCapable(registry, method, currency) ==
  {id \in FindByCurrency(registry, currency) : SupportsMethod(registry[id], method)}
=============================================================================
