CONSTANTS
    t1 = t1
    t2 = t2
    None = None
    Txs = {t1, t2}
SPECIFICATION FairSpec
INVARIANTS StoredWhole
PROPERTIES ForgottenOnlyConfirmed StoredPurchaseCredited ReceiptGoes
